---- MODULE Spec2Model ----
(***************************************************************************)
(* Payment matching of bulkinvoicer.                                       *)
(*                                                                         *)
(*   match_payments            src/bulkinvoicer/utils.py:789-850           *)
(*   match_payments_by_client  src/bulkinvoicer/domain/matching.py:18-75   *)
(*                                                                         *)
(* Money is a Python Decimal in the program; the model uses integers (an   *)
(* exact arithmetic as well).  An invoice or receipt number is a positive  *)
(* integer; None stands for a missing number (None and "" are both falsy   *)
(* at utils.py:807) and for the null invoice of an advance allocation.     *)
(***************************************************************************)
EXTENDS Integers, Sequences, FiniteSets, TLC

\* ---------------------------------------------------------------- bounds
MaxInvoices == 2
MaxReceipts == 2
MaxTotal == 2
MaxAmount == 2
MaxDfInvoices == 2
MaxDfReceipts == 2
NumClients == 2
MaxDate == 2
MaxSliceRows == 2
MaxSortDate == 3
MaxOutputs == 2
MaxGenRows == 1
DaysPerMonth == 2
MaxYear == 2
MaxMonth == 3
MaxCloseInvoices == 2
MaxCloseReceipts == 1
MaxReportMonth == 2
MaxReportInvoices == 2
MaxReportReceipts == 1
MaxItems == 2
MaxFanOutputs == 2

\* ------------------------------------------------------------- constants
\* Python's None: a missing invoice number, the invoice of an advance entry,
\* an absent date.
None == 0

\* the month number of December (balances.py:19)
December == 12

VARIABLES
    \* match_payments: arguments, locals and position
    invoices,            \* argument: sequence of [number, total]
    receipts,            \* argument: sequence of [number, amount]
    unmatched_invoices,  \* the working queue of [number, balance]
    matched_payments,    \* sequence of [receipt, invoices]
    receipt_idx,         \* position of the `for receipt in receipts` loop
    receipt_balance,
    matches,             \* the current receipt's allocation entries
    pc,                  \* "idle" | "start" | "for" | "while" | "done"
    \* the caller of the stand-alone matcher
    run,                 \* "first" | "again" | "stripped"
    first_result,        \* what the first call returned
    invoices0,           \* the arguments of the first call
    receipts0,
    \* match_payments_by_client: arguments, locals and position
    df_invoices,         \* argument: rows [number, client, sort_date, total]
    df_receipts,         \* argument: rows [number, client, sort_date, amount]
    clients,             \* the clients the loop has still to visit
    client_id,
    matched,
    unpaid,
    df_invoices_out,     \* the returned pair
    df_receipts_out,
    dpc,                 \* "idle" | "start" | "loop" | "call" | "done"
    \* slice_period_frames: arguments and result
    p_invoices,          \* argument: rows [number, sort_date]
    p_receipts,
    p_start_date,        \* a date, or None
    p_end_date,
    frames,              \* the returned dict, <<>> before the return
    ppc,                 \* "idle" | "start" | "done"
    \* generate: the loop over config.output
    g_invoices,          \* the matched frames (generate.py:59)
    g_receipts,
    output,              \* config.output, in order: [path, start_date, end_date]
    key,                 \* position of the `for key, output_config` loop
    g_frames,            \* the local `frames`, <<>> before the first slicing
    sliced,              \* the keys slice_period_frames has returned for
    written,             \* the keys whose documents have been written
    gpc,                 \* "idle" | "path" | "slice" | "text" | "write" |
                         \* "done" | "raised"
    \* normalize_date_period: arguments, the clock and the result
    n_start_date,        \* a date, or None
    n_end_date,
    today,               \* datetime.datetime.now().date()
    normalized,          \* the returned <<start_date, end_date>>, <<>> before
    npc,                 \* "idle" | "start" | "done"
    \* compute_monthly_client_balances and summarize_balance_data
    b_start_date,        \* arguments
    b_end_date,
    df_invoices_close,   \* rows [client, sort_date, total]
    df_receipts_close,   \* rows [client, sort_date, amount]
    df_clients_close,    \* the clients
    df_balance,          \* the monthly client balances, a set of rows
    df_balance_aggregated,  \* the rollup, rows in order
    bpc,                 \* "idle" | "start" | "balanced" | "done"
    \* generate: one output configuration with include_summary
    s_invoices,          \* the matched frames: rows [number, client,
    s_receipts,          \* sort_date, total] and [.., amount]
    s_start_date,        \* output_config.start_date, or None
    s_end_date,
    s_now,               \* datetime.datetime.now().date()
    s_frames,            \* the slices, <<>> before slice_period_frames
    df_client_summaries, \* rows in order, <<>> before
    df_status_breakdown, \* rows in order, <<>> before
    s_period,            \* <<start_date, end_date>> once normalized
    s_balance,           \* df_balance, a set of rows
    s_balance_aggregated,  \* the rollup
    df_transactions,     \* the ledger, rows in order
    spc,                 \* "idle" | "slice" | "text" | "summaries" |
                         \* "status" | "balances" | "ledger" | "done" |
                         \* "raised"
    \* generate: the worker processes and writer threads
    f_output,            \* config.output, in order: [type, include_summary,
                         \* items]
    f_key,               \* position of the `for key, output_config` loop
    f_matchings,         \* the calls of match_payments_by_client so far
    f_core,              \* the core computations done for the output
    f_tasks,             \* the rendering futures: task -> "none" |
                         \* "pending" | "running" | "done" | "failed"
    f_yielded,           \* the futures as_completed has handed out
    f_writes,            \* the write futures in order of submission:
                         \* [task, state]
    fpc                  \* the main thread: "idle" | "match" | "loop" |
                         \* "core" | "submit" | "collect" | "wait" |
                         \* "exit_threads" | "exit_pool" | "unwind_threads" |
                         \* "unwind_pool" | "done" | "raised"

matcherVars == <<invoices, receipts, unmatched_invoices, matched_payments,
                 receipt_idx, receipt_balance, matches, pc>>
callerVars == <<run, first_result, invoices0, receipts0>>
driverVars == <<df_invoices, df_receipts, clients, client_id, matched, unpaid,
                df_invoices_out, df_receipts_out, dpc>>
periodVars == <<p_invoices, p_receipts, p_start_date, p_end_date, frames, ppc>>
generateVars == <<g_invoices, g_receipts, output, key, g_frames, sliced,
                  written, gpc>>
normalizeVars == <<n_start_date, n_end_date, today, normalized, npc>>
balanceVars == <<b_start_date, b_end_date, df_invoices_close,
                 df_receipts_close, df_clients_close, df_balance,
                 df_balance_aggregated, bpc>>
summaryVars == <<s_invoices, s_receipts, s_start_date, s_end_date, s_now,
                 s_frames, df_client_summaries, df_status_breakdown,
                 s_period, s_balance, s_balance_aggregated,
                 df_transactions, spc>>
fanoutVars == <<f_output, f_key, f_matchings, f_core, f_tasks, f_yielded,
                f_writes, fpc>>
reportingVars == <<periodVars, generateVars, normalizeVars, balanceVars>>
vars == <<matcherVars, callerVars, driverVars, reportingVars,
         summaryVars,
         fanoutVars>>

\* what each component leaves alone
outsideMatcher == <<callerVars, driverVars, reportingVars,
                    summaryVars,
                    fanoutVars>>
outsideCaller == <<driverVars, reportingVars,
                    summaryVars,
                    fanoutVars>>
outsideDriver == <<callerVars, reportingVars,
                    summaryVars,
                    fanoutVars>>
outsidePeriods == <<matcherVars, callerVars, driverVars, generateVars,
                    normalizeVars, balanceVars,
                    summaryVars,
                    fanoutVars>>
outsideGenerate == <<matcherVars, callerVars, driverVars, periodVars,
                     normalizeVars, balanceVars,
                    summaryVars,
                    fanoutVars>>
outsideNormalize == <<matcherVars, callerVars, driverVars, periodVars,
                      generateVars, balanceVars,
                    summaryVars,
                    fanoutVars>>
outsideBalances == <<matcherVars, callerVars, driverVars, periodVars,
                     generateVars, normalizeVars,
                    summaryVars,
                    fanoutVars>>
outsideSummary == <<matcherVars, callerVars, driverVars, reportingVars,
                    fanoutVars>>
outsideFanout == <<matcherVars, callerVars, driverVars, reportingVars,
                   summaryVars>>

\* ------------------------------------------------------- sequence helpers
RECURSIVE SumAmounts(_)
SumAmounts(entries) ==
    IF entries = <<>> THEN 0
    ELSE Head(entries).amount + SumAmounts(Tail(entries))

RECURSIVE Flatten(_)
Flatten(seqs) ==
    IF seqs = <<>> THEN <<>> ELSE Head(seqs) \o Flatten(Tail(seqs))

\* ---------------------------------------------------------- match_payments
\* utils.py:806-809: an invoice whose number is falsy is skipped.
NumberedInvoicesNoSkip(invs) == invs

NumberedInvoices(invs) ==
    SelectSeq(invs, LAMBDA invoice : invoice.number # None)

\* utils.py:811-817: a fresh {"number", "balance"} dict per invoice.
QueueEntryOverstated(invoice) ==
    [number |-> invoice.number, balance |-> invoice.total + 1]

QueueEntry(invoice) ==
    [number |-> invoice.number, balance |-> invoice.total]

\* utils.py:802-817: unmatched_invoices = [] and then the appends.
BuildQueueStale(invs) ==
    unmatched_invoices \o
        [i \in 1..Len(NumberedInvoices(invs)) |->
            QueueEntry(NumberedInvoices(invs)[i])]

BuildQueue(invs) ==
    [i \in 1..Len(NumberedInvoices(invs)) |->
        QueueEntry(NumberedInvoices(invs)[i])]

\* utils.py:827: invoice = unmatched_invoices[0]
QueueLast(queue) == queue[Len(queue)]

QueueHead(queue) == queue[1]

\* utils.py:834: unmatched_invoices.pop(0)
KeepHead(queue) == queue

PopHead(queue) == Tail(queue)

\* utils.py:837: invoice["balance"] -= receipt_balance, on the head's dict.
KeepHeadBalance(queue, paid) == queue

DecreaseHead(queue, paid) ==
    [queue EXCEPT ![1].balance = queue[1].balance - paid]

\* utils.py:840-841: the advance entry for what is left of the receipt.
NoAdvance(entries, left) == entries

AdvanceAlways(entries, left) ==
    Append(entries, [invoice |-> None, amount |-> left])

WithAdvance(entries, left) ==
    IF left > 0
    THEN Append(entries, [invoice |-> None, amount |-> left])
    ELSE entries

\* utils.py:843-848: one entry per receipt, whatever the matches.
AppendMatchedIfAny(payments, receipt, entries) ==
    IF entries = <<>> THEN payments
    ELSE Append(payments, [receipt |-> receipt.number, invoices |-> entries])

AppendMatched(payments, receipt, entries) ==
    Append(payments, [receipt |-> receipt.number, invoices |-> entries])

\* utils.py:798-800
EarlyReturn ==
    /\ pc = "start"
    /\ invoices = <<>> /\ receipts = <<>>
    /\ matched_payments' = <<>>
    /\ unmatched_invoices' = <<>>
    /\ pc' = "done"
    /\ UNCHANGED <<invoices, receipts, receipt_idx, receipt_balance, matches,
                   outsideMatcher>>

\* utils.py:802-817
CollectInvoices ==
    /\ pc = "start"
    /\ ~(invoices = <<>> /\ receipts = <<>>)
    /\ unmatched_invoices' = BuildQueue(invoices)
    /\ matched_payments' = <<>>
    /\ receipt_idx' = 1
    /\ pc' = "for"
    /\ UNCHANGED <<invoices, receipts, receipt_balance, matches,
                   outsideMatcher>>

\* utils.py:819-824
NextReceipt ==
    /\ pc = "for"
    /\ receipt_idx <= Len(receipts)
    /\ receipt_balance' = receipts[receipt_idx].amount
    /\ matches' = <<>>
    /\ pc' = "while"
    /\ UNCHANGED <<invoices, receipts, unmatched_invoices, matched_payments,
                   receipt_idx,
                   outsideMatcher>>

\* utils.py:826-834
ConsumeFull ==
    /\ pc = "while"
    /\ receipt_balance > 0 /\ unmatched_invoices # <<>>
    /\ LET invoice == QueueHead(unmatched_invoices) IN
        /\ receipt_balance >= invoice.balance
        /\ matches' = Append(matches, [invoice |-> invoice.number,
                                       amount |-> invoice.balance])
        /\ receipt_balance' = receipt_balance - invoice.balance
        /\ unmatched_invoices' = PopHead(unmatched_invoices)
    /\ UNCHANGED <<invoices, receipts, matched_payments, receipt_idx, pc,
                   outsideMatcher>>

\* utils.py:826-830, 835-838
ConsumePartial ==
    /\ pc = "while"
    /\ receipt_balance > 0 /\ unmatched_invoices # <<>>
    /\ LET invoice == QueueHead(unmatched_invoices) IN
        /\ ~(receipt_balance >= invoice.balance)
        /\ matches' = Append(matches, [invoice |-> invoice.number,
                                       amount |-> receipt_balance])
        /\ unmatched_invoices' = DecreaseHead(unmatched_invoices, receipt_balance)
        /\ receipt_balance' = 0
    /\ UNCHANGED <<invoices, receipts, matched_payments, receipt_idx, pc,
                   outsideMatcher>>

\* utils.py:826 (the loop condition fails), 840-848
EndReceipt ==
    /\ pc = "while"
    /\ ~(receipt_balance > 0 /\ unmatched_invoices # <<>>)
    /\ matches' = WithAdvance(matches, receipt_balance)
    /\ matched_payments' =
           AppendMatched(matched_payments, receipts[receipt_idx], matches')
    /\ receipt_idx' = receipt_idx + 1
    /\ pc' = "for"
    /\ UNCHANGED <<invoices, receipts, unmatched_invoices, receipt_balance,
                   outsideMatcher>>

\* utils.py:819 (no receipt is left), 850
Return ==
    /\ pc = "for"
    /\ receipt_idx > Len(receipts)
    /\ pc' = "done"
    /\ UNCHANGED <<invoices, receipts, unmatched_invoices, matched_payments,
                   receipt_idx, receipt_balance, matches,
                   outsideMatcher>>

\* the value match_payments returns (utils.py:800, 850)
Returned == <<matched_payments, unmatched_invoices>>

\* ------------------------------------------------- match_payments_by_client
\* A nullable column value: polars' null, or a value.
Null == <<>>

Some(v) == <<v>>

\* matching.py:42, 48: df.filter(pl.col("client") == client_id)
FilterClient(df, c) == SelectSeq(df, LAMBDA row : row.client = c)

\* matching.py:43, 49: df.sort("sort_date").  polars keeps the order of equal
\* keys only under maintain_order=True, which the call does not pass: every
\* arrangement of the rows that ascends by sort_date is a possible outcome.
SortedByDate(df) ==
    { [i \in 1..Len(df) |-> df[p[i]]] :
        p \in { q \in [1..Len(df) -> 1..Len(df)] :
                  /\ \A i, j \in 1..Len(df) : i # j => q[i] # q[j]
                  /\ \A i, j \in 1..Len(df) :
                        i < j => df[q[i]].sort_date <= df[q[j]].sort_date } }

\* matching.py:44-45: .select("number", "total").to_dicts()
InvoiceDicts(df) ==
    [i \in 1..Len(df) |-> [number |-> df[i].number, total |-> df[i].total]]

\* matching.py:50-51: .select("number", "amount").to_dicts()
ReceiptDicts(df) ==
    [i \in 1..Len(df) |-> [number |-> df[i].number, amount |-> df[i].amount]]

\* matching.py:38: df_receipts.select("client").unique()
UniqueClients(df) == {df[i].client : i \in 1..Len(df)}

\* A polars frame: its columns and its rows.  The arguments are kept as row
\* sequences; these give them their schema.
InvoiceFrame(rows) ==
    [columns |-> {"number", "client", "sort_date", "total"}, rows |-> rows]

ReceiptFrame(rows) ==
    [columns |-> {"number", "client", "sort_date", "amount"}, rows |-> rows]

\* matching.py:31: df_invoices.with_columns(pl.col("total").alias("balance"))
WithBalanceNull(df) ==
    [columns |-> df.columns \cup {"balance"},
     rows |-> [i \in 1..Len(df.rows) |-> df.rows[i] @@ ("balance" :> Null)]]

WithBalanceTotal(df) ==
    [columns |-> df.columns \cup {"balance"},
     rows |-> [i \in 1..Len(df.rows) |->
                  df.rows[i] @@ ("balance" :> Some(df.rows[i].total))]]

\* matching.py:64-66, 72:
\* df_invoices.join(df_unpaid_invoices, on="number", how="left").
\* A left join keeps every left row, in order, once per right row with its key.
JoinUnpaidAsTotal(df, right) ==
    [columns |-> df.columns \cup {"balance"},
     rows |-> Flatten([i \in 1..Len(df.rows) |->
        LET hits == SelectSeq(right, LAMBDA u : u.number = df.rows[i].number) IN
        IF hits = <<>>
        THEN <<df.rows[i] @@ ("balance" :> Some(df.rows[i].total))>>
        ELSE [k \in 1..Len(hits) |->
                 df.rows[i] @@ ("balance" :> Some(hits[k].balance))]])]

LeftJoinUnpaid(df, right) ==
    [columns |-> df.columns \cup {"balance"},
     rows |-> Flatten([i \in 1..Len(df.rows) |->
        LET hits == SelectSeq(right, LAMBDA u : u.number = df.rows[i].number) IN
        IF hits = <<>>
        THEN <<df.rows[i] @@ ("balance" :> Null)>>
        ELSE [k \in 1..Len(hits) |->
                 df.rows[i] @@ ("balance" :> Some(hits[k].balance))]])]

\* matching.py:59-63, 69-71:
\* df_receipts.join(df_matched, left_on="number", right_on="receipt", how="left")
LeftJoinMatched(df, right) ==
    [columns |-> df.columns \cup {"invoices"},
     rows |-> Flatten([i \in 1..Len(df.rows) |->
        LET hits == SelectSeq(right, LAMBDA m : m.receipt = df.rows[i].number) IN
        IF hits = <<>>
        THEN <<df.rows[i] @@ ("invoices" :> Null)>>
        ELSE [k \in 1..Len(hits) |->
                 df.rows[i] @@ ("invoices" :> Some(hits[k].invoices))]])]

\* matching.py:26-28
BothEmpty ==
    /\ dpc = "start"
    /\ df_invoices = <<>> /\ df_receipts = <<>>
    /\ df_invoices_out' = InvoiceFrame(df_invoices)
    /\ df_receipts_out' = ReceiptFrame(df_receipts)
    /\ dpc' = "done"
    /\ UNCHANGED <<df_invoices, df_receipts, clients, client_id, matched,
                   unpaid, matcherVars, outsideDriver>>

\* matching.py:29-31
NoReceipts ==
    /\ dpc = "start"
    /\ ~(df_invoices = <<>> /\ df_receipts = <<>>)
    /\ df_receipts = <<>>
    /\ df_invoices_out' = WithBalanceTotal(InvoiceFrame(df_invoices))
    /\ df_receipts_out' = ReceiptFrame(df_receipts)
    /\ dpc' = "done"
    /\ UNCHANGED <<df_invoices, df_receipts, clients, client_id, matched,
                   unpaid, matcherVars, outsideDriver>>

\* matching.py:33-38
StartMatching ==
    /\ dpc = "start"
    /\ df_receipts # <<>>
    /\ matched' = <<>>
    /\ unpaid' = <<>>
    /\ clients' = UniqueClients(df_receipts)
    /\ dpc' = "loop"
    /\ UNCHANGED <<df_invoices, df_receipts, client_id, df_invoices_out,
                   df_receipts_out, matcherVars, outsideDriver>>

\* matching.py:40-54: the next client, in whatever order unique() gave, and
\* the call of match_payments with its invoices and receipts.
CallMatcher ==
    /\ dpc = "loop"
    /\ \E c \in clients :
        /\ client_id' = c
        /\ \E inv \in SortedByDate(FilterClient(df_invoices, c)) :
               invoices' = InvoiceDicts(inv)
        /\ \E rec \in SortedByDate(FilterClient(df_receipts, c)) :
               receipts' = ReceiptDicts(rec)
    /\ pc' = "start"
    /\ dpc' = "call"
    /\ UNCHANGED <<df_invoices, df_receipts, clients, matched, unpaid,
                   df_invoices_out, df_receipts_out,
                   unmatched_invoices, matched_payments, receipt_idx,
                   receipt_balance, matches, outsideDriver>>

\* matching.py:54-56: match_payments has returned
ExtendResults ==
    /\ dpc = "call"
    /\ pc = "done"
    /\ matched' = matched \o matched_payments
    /\ unpaid' = unpaid \o unmatched_invoices
    /\ clients' = clients \ {client_id}
    /\ pc' = "idle"
    /\ dpc' = "loop"
    /\ UNCHANGED <<df_invoices, df_receipts, client_id, df_invoices_out,
                   df_receipts_out, invoices, receipts, unmatched_invoices,
                   matched_payments, receipt_idx, receipt_balance, matches,
                   outsideDriver>>

\* matching.py:58-75
JoinBack ==
    /\ dpc = "loop"
    /\ clients = {}
    /\ df_receipts_out' = LeftJoinMatched(ReceiptFrame(df_receipts), matched)
    /\ df_invoices_out' = LeftJoinUnpaid(InvoiceFrame(df_invoices), unpaid)
    /\ dpc' = "done"
    /\ UNCHANGED <<df_invoices, df_receipts, clients, client_id, matched,
                   unpaid, matcherVars, outsideDriver>>

\* The frames generate() hands over (generate.py:55-59): prepare_invoices
\* groups by number and sorts by number (prepare.py:29, 53), prepare_receipts
\* sorts by number (prepare.py:100), so a row's number is its position.
\* Totals and amounts are positive here; the zero cases are those of
\* match_payments and are covered by InvoiceLists and ReceiptLists.
DfInvoiceFrames ==
    UNION { { s \in [1..n -> [number : 1..MaxDfInvoices, client : 1..NumClients,
                              sort_date : 1..MaxDate, total : 1..MaxTotal]] :
                \A i \in 1..n : s[i].number = i } :
            n \in 0..MaxDfInvoices }

DfReceiptFrames ==
    UNION { { s \in [1..n -> [number : 1..MaxDfReceipts, client : 1..NumClients,
                              sort_date : 1..MaxDate, amount : 1..MaxAmount]] :
                \A i \in 1..n : s[i].number = i } :
            n \in 0..MaxDfReceipts }

\* nothing returned yet
NoFrame == [columns |-> {}, rows |-> <<>>]

\* match_payments before any call
MatcherIdle ==
    /\ invoices = <<>>
    /\ receipts = <<>>
    /\ unmatched_invoices = <<>>
    /\ matched_payments = <<>>
    /\ receipt_idx = 1
    /\ receipt_balance = 0
    /\ matches = <<>>
    /\ pc = "idle"

\* match_payments_by_client not in use
DriverIdle ==
    /\ df_invoices = <<>>
    /\ df_receipts = <<>>
    /\ clients = {}
    /\ client_id = None
    /\ matched = <<>>
    /\ unpaid = <<>>
    /\ df_invoices_out = NoFrame
    /\ df_receipts_out = NoFrame
    /\ dpc = "idle"

CallerIdle ==
    /\ run = "first"
    /\ first_result = <<>>
    /\ invoices0 = <<>>
    /\ receipts0 = <<>>

\* slice_period_frames not in use
PeriodsIdle ==
    /\ p_invoices = <<>>
    /\ p_receipts = <<>>
    /\ p_start_date = None
    /\ p_end_date = None
    /\ frames = <<>>
    /\ ppc = "idle"

\* generate not running
GenerateIdle ==
    /\ g_invoices = <<>>
    /\ g_receipts = <<>>
    /\ output = <<>>
    /\ key = 1
    /\ g_frames = <<>>
    /\ sliced = {}
    /\ written = {}
    /\ gpc = "idle"

\* normalize_date_period not in use
NormalizeIdle ==
    /\ n_start_date = None
    /\ n_end_date = None
    /\ today = None
    /\ normalized = <<>>
    /\ npc = "idle"

\* the balance functions not in use
BalancesIdle ==
    /\ b_start_date = None
    /\ b_end_date = None
    /\ df_invoices_close = <<>>
    /\ df_receipts_close = <<>>
    /\ df_clients_close = {}
    /\ df_balance = {}
    /\ df_balance_aggregated = <<>>
    /\ bpc = "idle"

\* no output configuration being processed
SummaryIdle ==
    /\ s_invoices = <<>>
    /\ s_receipts = <<>>
    /\ s_start_date = None
    /\ s_end_date = None
    /\ s_now = None
    /\ s_frames = <<>>
    /\ df_client_summaries = <<>>
    /\ df_status_breakdown = <<>>
    /\ s_period = <<>>
    /\ s_balance = {}
    /\ s_balance_aggregated = <<>>
    /\ df_transactions = <<>>
    /\ spc = "idle"

\* generate's pools not in use
FanoutIdle ==
    /\ f_output = <<>>
    /\ f_key = 1
    /\ f_matchings = 0
    /\ f_core = {}
    /\ f_tasks = <<>>
    /\ f_yielded = {}
    /\ f_writes = <<>>
    /\ fpc = "idle"

\* the reporting functions not in use
ReportingIdle ==
    /\ FanoutIdle
    /\ SummaryIdle
    /\ PeriodsIdle
    /\ GenerateIdle
    /\ NormalizeIdle
    /\ BalancesIdle

InitDriver ==
    /\ df_invoices \in DfInvoiceFrames
    /\ df_receipts \in DfReceiptFrames
    /\ clients = {}
    /\ client_id = None
    /\ matched = <<>>
    /\ unpaid = <<>>
    /\ df_invoices_out = NoFrame
    /\ df_receipts_out = NoFrame
    /\ dpc = "start"
    /\ MatcherIdle
    /\ CallerIdle
    /\ ReportingIdle

\* EarlyReturn is no step of the driver: every client comes from df_receipts
\* (matching.py:38), so match_payments is never called with no receipts.
NextDriver ==
    \/ BothEmpty
    \/ NoReceipts
    \/ StartMatching
    \/ CallMatcher
    \/ CollectInvoices
    \/ NextReceipt
    \/ ConsumeFull
    \/ ConsumePartial
    \/ EndReceipt
    \/ Return
    \/ ExtendResults
    \/ JoinBack

SpecDriver == InitDriver /\ [][NextDriver]_vars

\* ------------------------------------------- the stand-alone matcher's caller
\* The argument lists of match_payments: invoice totals are not validated
\* (prepare.py:71-77 sums them), nor are receipt amounts (prepare.py:113), so
\* zero occurs; a numbered invoice carries its position as its number
\* (numbers are unique, prepare.py:29 groups by number).
InvoiceLists ==
    UNION { { s \in [1..n -> [number : 0..MaxInvoices, total : 0..MaxTotal]] :
                \A i \in 1..n : s[i].number \in {None, i} } :
            n \in 0..MaxInvoices }

ReceiptLists ==
    UNION { { s \in [1..n -> [number : 1..MaxReceipts, amount : 0..MaxAmount]] :
                \A i \in 1..n : s[i].number = i } :
            n \in 0..MaxReceipts }

Init ==
    /\ invoices \in InvoiceLists
    /\ receipts \in ReceiptLists
    /\ unmatched_invoices = <<>>
    /\ matched_payments = <<>>
    /\ receipt_idx = 1
    /\ receipt_balance = 0
    /\ matches = <<>>
    /\ pc = "start"
    /\ run = "first"
    /\ first_result = <<>>
    /\ invoices0 = invoices
    /\ receipts0 = receipts
    /\ DriverIdle
    /\ ReportingIdle

\* A second call with the same arguments, once the first has returned.  The
\* locals keep what the first call left in them: a new call must not depend
\* on it.
CallAgain ==
    /\ pc = "done" /\ run = "first"
    /\ run' = "again"
    /\ first_result' = Returned
    /\ pc' = "start"
    /\ UNCHANGED <<invoices, receipts, unmatched_invoices, matched_payments,
                   receipt_idx, receipt_balance, matches, invoices0, receipts0,
                   outsideCaller>>

\* the invoices that carry a number
Numbered(invs) == SelectSeq(invs, LAMBDA invoice : invoice.number # None)

\* A second call with the unnumbered invoices taken out of the argument.
CallStripped ==
    /\ pc = "done" /\ run = "first"
    /\ run' = "stripped"
    /\ first_result' = Returned
    /\ invoices' = Numbered(invoices)
    /\ pc' = "start"
    /\ UNCHANGED <<receipts, unmatched_invoices, matched_payments,
                   receipt_idx, receipt_balance, matches, invoices0, receipts0,
                   outsideCaller>>

Next ==
    \/ EarlyReturn
    \/ CollectInvoices
    \/ NextReceipt
    \/ ConsumeFull
    \/ ConsumePartial
    \/ EndReceipt
    \/ Return
    \/ CallAgain
    \/ CallStripped

Spec == Init /\ [][Next]_vars

\* ===================================================================
\* Properties of match_payments (specification Spec)
\* ===================================================================

\* the locals of match_payments hold the running call's values
Live == pc \in {"for", "while", "done"}

\* every allocation entry emitted so far by the running call, in order
AllocationsSoFar ==
    Flatten([i \in 1..Len(matched_payments) |-> matched_payments[i].invoices])
        \o (IF pc = "while" THEN matches ELSE <<>>)

NonNull(entries) == SelectSeq(entries, LAMBDA a : a.invoice # None)

\* the input position of the invoice numbered n
PosOf(n) == CHOOSE i \in 1..Len(invoices) : invoices[i].number = n

InQueue(n) ==
    \E k \in 1..Len(unmatched_invoices) : unmatched_invoices[k].number = n

AllocatedTo(n) ==
    SumAmounts(SelectSeq(AllocationsSoFar, LAMBDA a : a.invoice = n))

Referenced(n) ==
    \E k \in 1..Len(AllocationsSoFar) : AllocationsSoFar[k].invoice = n

\* C1: FIFO.  At every step of the matching loop the non-null allocations
\* reference invoices in non-decreasing input position, and whenever an
\* allocation to an invoice exists, every numbered invoice at an earlier
\* input position has left the queue with allocations summing to its total.
C1_Fifo ==
    Live =>
        LET al == NonNull(AllocationsSoFar) IN
        /\ \A i, j \in 1..Len(al) :
              i < j => PosOf(al[i].invoice) <= PosOf(al[j].invoice)
        /\ \A i \in 1..Len(al) : \A k \in 1..Len(invoices) :
              (invoices[k].number # None /\ k < PosOf(al[i].invoice))
                  => /\ ~InQueue(invoices[k].number)
                     /\ AllocatedTo(invoices[k].number) = invoices[k].total

\* a receipt has paid off the first invoice and gone on to the second, which
\* it pays in part
C1_Witness ==
    /\ pc = "done" /\ run = "first"
    /\ Len(invoices) = 2
    /\ \E i \in 1..Len(matched_payments) :
          LET al == matched_payments[i].invoices IN
          /\ Len(al) = 2
          /\ al[1].invoice = invoices[1].number /\ al[1].invoice # None
          /\ al[2].invoice = invoices[2].number /\ al[2].invoice # None
          /\ al[2].amount < invoices[2].total

\* C2: conservation.  The allocation amounts of every processed receipt,
\* advance entries included, sum to the receipt's amount; while a receipt is
\* being matched, what is allocated and what is left sum to its amount; at
\* the return all allocation amounts sum to all receipt amounts.  (All totals
\* of the model are >= 0; the statement holds for receipts of amount 0 too.)
C2_Conservation ==
    Live =>
        /\ \A i \in 1..Len(matched_payments) :
              SumAmounts(matched_payments[i].invoices) = receipts[i].amount
        /\ pc = "while" =>
              SumAmounts(matches) + receipt_balance = receipts[receipt_idx].amount
        /\ pc = "done" =>
              SumAmounts(AllocationsSoFar) = SumAmounts(receipts)

\* two receipts, one matched to an invoice and one leaving an advance
C2_Witness ==
    /\ pc = "done" /\ run = "first"
    /\ Len(receipts) = 2
    /\ \A i \in 1..2 : receipts[i].amount > 0
    /\ \E k \in 1..Len(AllocationsSoFar) :
          AllocationsSoFar[k].invoice # None /\ AllocationsSoFar[k].amount > 0
    /\ \E k \in 1..Len(AllocationsSoFar) :
          AllocationsSoFar[k].invoice = None

\* C3: idempotence.  A second call with the same arguments, made after the
\* first has returned, returns the same matched_payments and the same
\* unpaid_invoices, and the calls leave the argument lists as they were.
C3_Idempotent ==
    /\ (run = "again" /\ pc = "done") => Returned = first_result
    /\ run # "stripped" => (invoices = invoices0 /\ receipts = receipts0)

\* the second call has returned, with a partly paid invoice left over
C3_Witness ==
    /\ run = "again" /\ pc = "done"
    /\ matched_payments # <<>>
    /\ \E k \in 1..Len(unmatched_invoices) :
          /\ unmatched_invoices[k].balance > 0
          /\ unmatched_invoices[k].balance
                 < invoices[PosOf(unmatched_invoices[k].number)].total

\* C4: one matched_payments entry per receipt, in the receipts' order, each
\* with its receipt's number, also for a receipt with no allocation; none
\* when there is no receipt.
C4_OneEntryPerReceipt ==
    Live =>
        /\ Len(matched_payments) =
              (IF pc = "done" THEN Len(receipts) ELSE receipt_idx - 1)
        /\ \A i \in 1..Len(matched_payments) :
              matched_payments[i].receipt = receipts[i].number

\* two receipts, the first of them without any allocation
C4_Witness ==
    /\ pc = "done" /\ run = "first"
    /\ Len(receipts) = 2
    /\ Len(matched_payments) = 2
    /\ matched_payments[1].invoices = <<>>
    /\ matched_payments[2].invoices # <<>>

\* the queue match_payments would return if it kept the entries `keep` holds of
Residual(keep(_)) ==
    SelectSeq(
        [i \in 1..Len(Numbered(invoices)) |->
            [number |-> Numbered(invoices)[i].number,
             balance |-> Numbered(invoices)[i].total
                            - AllocatedTo(Numbered(invoices)[i].number)]],
        keep)

C5_Edges ==
    /\ receipts = <<>> =>
          unmatched_invoices =
              [i \in 1..Len(Numbered(invoices)) |->
                  [number |-> Numbered(invoices)[i].number,
                   balance |-> Numbered(invoices)[i].total]]
    /\ (invoices = <<>> /\ receipts = <<>>) => Returned = << <<>>, <<>> >>

\* C5 as stated: at the return a numbered invoice is in unpaid_invoices iff
\* its allocations sum to less than its total.
C5_AsStated ==
    pc = "done" =>
        /\ unmatched_invoices = Residual(LAMBDA e : e.balance > 0)
        /\ C5_Edges

\* C5, amended: at the return unpaid_invoices holds, in input order, exactly
\* the numbered invoices whose allocations sum to less than their total or
\* that no allocation entry references (an invoice of total 0 that no receipt
\* reached), each with balance = total - allocations; with no receipts every
\* numbered invoice is there with its total; with both inputs empty the
\* result is ([], []).
C5_Residual ==
    pc = "done" =>
        /\ unmatched_invoices =
              Residual(LAMBDA e : e.balance > 0 \/ ~Referenced(e.number))
        /\ C5_Edges

\* a paid invoice is gone and a partly paid one is left
C5_Witness ==
    /\ pc = "done" /\ run = "first"
    /\ Len(invoices) = 2 /\ Len(Numbered(invoices)) = 2
    /\ Len(unmatched_invoices) = 1
    /\ unmatched_invoices[1].number = invoices[2].number
    /\ 0 < unmatched_invoices[1].balance
    /\ unmatched_invoices[1].balance < invoices[2].total
    /\ invoices[1].total > 0

\* the amended C6 but for the case of a client without invoices
C6_Entries ==
    \A i \in 1..Len(matched_payments) :
        LET al == matched_payments[i].invoices
            nulls == {k \in 1..Len(al) : al[k].invoice = None}
            left == receipts[i].amount - SumAmounts(NonNull(al))
        IN  /\ nulls # {} <=> left > 0
            /\ nulls # {} =>
                  /\ nulls = {Len(al)}
                  /\ al[Len(al)].amount = left
                  /\ unmatched_invoices = <<>>

\* C6 as stated: with no invoices, every receipt's allocation list is the
\* single advance entry for its amount.
C6_AsStated ==
    Live =>
        /\ C6_Entries
        /\ invoices = <<>> =>
              \A i \in 1..Len(matched_payments) :
                  matched_payments[i].invoices =
                      <<[invoice |-> None, amount |-> receipts[i].amount]>>

\* C6, amended: a receipt has an advance entry (invoice = None) iff part of
\* its amount is left once the queue is empty; the entry is then the only
\* one, the last of the receipt's list, and its amount is what is left.  With
\* no invoices, the list of every receipt of a positive amount is the single
\* advance entry for its amount.
C6_Advance ==
    Live =>
        /\ C6_Entries
        /\ invoices = <<>> =>
              \A i \in 1..Len(matched_payments) :
                  receipts[i].amount > 0 =>
                      matched_payments[i].invoices =
                          <<[invoice |-> None, amount |-> receipts[i].amount]>>

\* a receipt pays an invoice off and leaves an advance; the next is all advance
C6_Witness ==
    /\ pc = "done" /\ run = "first"
    /\ Len(matched_payments) = 2
    /\ Len(matched_payments[1].invoices) = 2
    /\ matched_payments[1].invoices[1].invoice # None
    /\ matched_payments[1].invoices[1].amount > 0
    /\ matched_payments[1].invoices[2].invoice = None
    /\ matched_payments[2].invoices =
           <<[invoice |-> None, amount |-> receipts[2].amount]>>

\* C7: an invoice without a number never enters the queue, so that it is
\* never allocated to and never returned as unpaid, and the call returns what
\* it returns for the same arguments without the unnumbered invoices.
C7_UnnumberedSkipped ==
    /\ Live =>
          /\ \A k \in 1..Len(unmatched_invoices) :
                unmatched_invoices[k].number # None
          /\ SumAmounts(NonNull(AllocationsSoFar))
                 <= SumAmounts([i \in 1..Len(Numbered(invoices)) |->
                                  [amount |-> Numbered(invoices)[i].total]])
    /\ (run = "stripped" /\ pc = "done") => Returned = first_result

\* an unnumbered invoice with a total stood first, before an invoice that a
\* receipt then paid
C7_Witness ==
    /\ run = "stripped" /\ pc = "done"
    /\ Len(invoices0) = 2
    /\ invoices0[1].number = None /\ invoices0[1].total > 0
    /\ invoices0[2].number # None
    /\ \E k \in 1..Len(AllocationsSoFar) :
          /\ AllocationsSoFar[k].invoice = invoices0[2].number
          /\ AllocationsSoFar[k].amount > 0

\* ------------------------------------------------------ slice_period_frames
\* periods.py:51-52: df.filter(pl.col("sort_date") >= start_date)
After(df, date) == SelectSeq(df, LAMBDA row : row.sort_date > date)

OnOrAfter(df, date) == SelectSeq(df, LAMBDA row : row.sort_date >= date)

\* periods.py:53-54: df.filter(pl.col("sort_date") < start_date)
UpTo(df, date) == SelectSeq(df, LAMBDA row : row.sort_date <= date)

Before(df, date) == SelectSeq(df, LAMBDA row : row.sort_date < date)

\* periods.py:60-63: df.filter(pl.col("sort_date") <= end_date)
OnOrBefore(df, date) == SelectSeq(df, LAMBDA row : row.sort_date <= date)

\* periods.py:56-57: df.filter(False)
NoRows(df) == SelectSeq(df, LAMBDA row : FALSE)

\* periods.py:66-67: df.sort("number"); rows of equal number, should there be
\* any, may come out in either order.
SortedByNumber(df) ==
    { [i \in 1..Len(df) |-> df[p[i]]] :
        p \in { q \in [1..Len(df) -> 1..Len(df)] :
                  /\ \A i, j \in 1..Len(df) : i # j => q[i] # q[j]
                  /\ \A i, j \in 1..Len(df) :
                        i < j => df[q[i]].number <= df[q[j]].number } }

\* periods.py:36-72: the dicts slice_period_frames may return.  A date is
\* never falsy, so `if start_date:` asks whether the bound is present.
SlicePeriodFrames(invs, recs, start_date, end_date) ==
    LET inv_from == IF start_date # None THEN OnOrAfter(invs, start_date) ELSE invs
        rec_from == IF start_date # None THEN OnOrAfter(recs, start_date) ELSE recs
        inv_open == IF start_date # None THEN Before(invs, start_date) ELSE NoRows(invs)
        rec_open == IF start_date # None THEN Before(recs, start_date) ELSE NoRows(recs)
        inv_report == IF end_date # None THEN OnOrBefore(inv_from, end_date) ELSE inv_from
        rec_report == IF end_date # None THEN OnOrBefore(rec_from, end_date) ELSE rec_from
        inv_close == IF end_date # None THEN OnOrBefore(invs, end_date) ELSE invs
        rec_close == IF end_date # None THEN OnOrBefore(recs, end_date) ELSE recs
    IN  { [invoices_report |-> ir, receipts_report |-> rr,
           invoices_open |-> inv_open, receipts_open |-> rec_open,
           invoices_close |-> inv_close, receipts_close |-> rec_close] :
          ir \in SortedByNumber(inv_report), rr \in SortedByNumber(rec_report) }

\* the call
SlicePeriodFramesCall ==
    /\ ppc = "start"
    /\ frames' \in SlicePeriodFrames(p_invoices, p_receipts,
                                     p_start_date, p_end_date)
    /\ ppc' = "done"
    /\ UNCHANGED <<p_invoices, p_receipts, p_start_date, p_end_date,
                   outsidePeriods>>

\* Frames of up to MaxSliceRows records with distinct numbers, in any order:
\* the function is also called on frames no caller has sorted
\* (tests/domain/test_periods.py:56-92).
SliceFrames ==
    UNION { { s \in [1..n -> [number : 1..n, sort_date : 1..MaxSortDate]] :
                \A i, j \in 1..n : i # j => s[i].number # s[j].number } :
            n \in 0..MaxSliceRows }

OptionalDates == {None} \cup (1..MaxSortDate)

InitPeriods ==
    /\ p_invoices \in SliceFrames
    /\ p_receipts \in SliceFrames
    /\ p_start_date \in OptionalDates
    /\ p_end_date \in OptionalDates
    /\ frames = <<>>
    /\ ppc = "start"
    /\ SummaryIdle
    /\ FanoutIdle
    /\ MatcherIdle
    /\ CallerIdle
    /\ DriverIdle
    /\ GenerateIdle
    /\ NormalizeIdle
    /\ BalancesIdle

NextPeriods ==
    \/ SlicePeriodFramesCall

SpecPeriods == InitPeriods /\ [][NextPeriods]_vars

\* ------------------------------------------------------------------ generate
\* the exception get_reporting_period_text raises
ValueError == <<"ValueError">>

\* periods.py:12-33: the parts of the reporting period's text, Null for the
\* None returned without a bound, ValueError when the start is after the end.
GetReportingPeriodText(start_date, end_date) ==
    IF start_date # None /\ end_date # None
    THEN IF start_date > end_date
         THEN ValueError
         ELSE <<"Period", start_date, end_date>>
    ELSE IF start_date # None THEN <<"Starting", start_date>>
    ELSE IF end_date # None THEN <<"Ending", end_date>>
    ELSE Null

\* generate.py:75-81: an empty path raises
PathMissing ==
    /\ gpc = "path"
    /\ key <= Len(output)
    /\ output[key].path = ""
    /\ gpc' = "raised"
    /\ UNCHANGED <<g_invoices, g_receipts, output, key, g_frames, sliced,
                   written, outsideGenerate>>

\* generate.py:75-93: the path is given; the type is one of the three literals
\* of config/model.py:152 and is never falsy
PathGiven ==
    /\ gpc = "path"
    /\ key <= Len(output)
    /\ output[key].path # ""
    /\ gpc' = "slice"
    /\ UNCHANGED <<g_invoices, g_receipts, output, key, g_frames, sliced,
                   written, outsideGenerate>>

\* generate.py:95-103
SliceForOutput ==
    /\ gpc = "slice"
    /\ g_frames' \in SlicePeriodFrames(g_invoices, g_receipts,
                                       output[key].start_date,
                                       output[key].end_date)
    /\ sliced' = sliced \cup {key}
    /\ gpc' = "text"
    /\ UNCHANGED <<g_invoices, g_receipts, output, key, written,
                   outsideGenerate>>

\* generate.py:105-107: get_reporting_period_text raises, and nothing in
\* generate catches it
PeriodTextRaises ==
    /\ gpc = "text"
    /\ GetReportingPeriodText(output[key].start_date,
                              output[key].end_date) = ValueError
    /\ gpc' = "raised"
    /\ UNCHANGED <<g_invoices, g_receipts, output, key, g_frames, sliced,
                   written, outsideGenerate>>

\* generate.py:105-107: get_reporting_period_text returns
PeriodTextReturns ==
    /\ gpc = "text"
    /\ GetReportingPeriodText(output[key].start_date,
                              output[key].end_date) # ValueError
    /\ gpc' = "write"
    /\ UNCHANGED <<g_invoices, g_receipts, output, key, g_frames, sliced,
                   written, outsideGenerate>>

\* generate.py:109-364: the summary and the documents of this output, and the
\* step to the next output
WriteOutput ==
    /\ gpc = "write"
    /\ written' = written \cup {key}
    /\ key' = key + 1
    /\ gpc' = "path"
    /\ UNCHANGED <<g_invoices, g_receipts, output, g_frames, sliced,
                   outsideGenerate>>

\* generate.py:69: the loop is over
OutputsDone ==
    /\ gpc = "path"
    /\ key > Len(output)
    /\ gpc' = "done"
    /\ UNCHANGED <<g_invoices, g_receipts, output, key, g_frames, sliced,
                   written, outsideGenerate>>

\* config/model.py:144-160: an output configuration; "" is the falsy path
OutputConfigs ==
    [path : {"", "out.pdf"}, start_date : OptionalDates,
     end_date : OptionalDates]

\* config/model.py:189-198: at least one output
OutputLists == UNION { [1..n -> OutputConfigs] : n \in 1..MaxOutputs }

\* prepared frames are in number order (prepare.py:53, 100)
GenFrames ==
    UNION { { s \in [1..n -> [number : 1..n, sort_date : 1..MaxSortDate]] :
                \A i \in 1..n : s[i].number = i } :
            n \in 0..MaxGenRows }

InitGenerate ==
    /\ g_invoices \in GenFrames
    /\ g_receipts \in GenFrames
    /\ output \in OutputLists
    /\ key = 1
    /\ g_frames = <<>>
    /\ sliced = {}
    /\ written = {}
    /\ gpc = "path"
    /\ SummaryIdle
    /\ FanoutIdle
    /\ MatcherIdle
    /\ CallerIdle
    /\ DriverIdle
    /\ PeriodsIdle
    /\ NormalizeIdle
    /\ BalancesIdle

NextGenerate ==
    \/ PathMissing
    \/ PathGiven
    \/ SliceForOutput
    \/ PeriodTextRaises
    \/ PeriodTextReturns
    \/ WriteOutput
    \/ OutputsDone

SpecGenerate == InitGenerate /\ [][NextGenerate]_vars

\* ------------------------------------------------------------ calendar dates
\* A datetime.date is the number of its day, counted from day 1 of month 1 of
\* year 0, in a calendar whose months all have DaysPerMonth days; dates
\* compare as their numbers do, and no date is None.
Date(year, month, day) ==
    (year * December + (month - 1)) * DaysPerMonth + day

\* date.year, date.month, date.day
YearOf(date) == ((date - 1) \div DaysPerMonth) \div December

MonthOf(date) == (((date - 1) \div DaysPerMonth) % December) + 1

DayOf(date) == ((date - 1) % DaysPerMonth) + 1

\* ---------------------------------------------------- normalize_date_period
\* balances.py:16-22: where a period of twelve months ending with end_date's
\* month starts
SameMonthYearBefore(end_date) ==
    Date(YearOf(end_date) - 1, MonthOf(end_date), 1)

ExpectedStartDate(end_date) ==
    IF MonthOf(end_date) = December
    THEN Date(YearOf(end_date), 1, 1)
    ELSE Date(YearOf(end_date) - 1, MonthOf(end_date) + 1, 1)

\* balances.py:12-34
NormalizeDatePeriod(start_date, end_date, now) ==
    LET end == IF end_date = None THEN now ELSE end_date
        expected_start_date == ExpectedStartDate(end)
    IN  IF start_date = None THEN <<expected_start_date, end>>
        ELSE IF start_date < expected_start_date
             THEN <<expected_start_date, end>>
             ELSE <<start_date, end>>

\* the call
NormalizeCall ==
    /\ npc = "start"
    /\ normalized' = NormalizeDatePeriod(n_start_date, n_end_date, today)
    /\ npc' = "done"
    /\ UNCHANGED <<n_start_date, n_end_date, today, outsideNormalize>>

\* the dates of the years first..last
DatesOfYears(first, last) ==
    { Date(y, m, d) : y \in first..last, m \in 1..December,
                      d \in 1..DaysPerMonth }

\* Any start, present or not; an end in a year that has a year before it; a
\* clock that shows the first or the last day of the last year.
InitNormalize ==
    /\ n_start_date \in {None} \cup DatesOfYears(0, MaxYear)
    /\ n_end_date \in {None} \cup DatesOfYears(1, MaxYear)
    /\ today \in {Date(MaxYear, 1, 1), Date(MaxYear, December, DaysPerMonth)}
    /\ normalized = <<>>
    /\ npc = "start"
    /\ SummaryIdle
    /\ FanoutIdle
    /\ MatcherIdle
    /\ CallerIdle
    /\ DriverIdle
    /\ PeriodsIdle
    /\ GenerateIdle
    /\ BalancesIdle

NextNormalize ==
    \/ NormalizeCall

SpecNormalize == InitNormalize /\ [][NextNormalize]_vars

\* ------------------------------------------ compute_monthly_client_balances
\* The frames of this function have one row for a client and a month, and no
\* claim reads the order of the rows of one month: a frame is the set of its
\* rows.

RECURSIVE SumSeq(_)
SumSeq(values) ==
    IF values = <<>> THEN 0 ELSE Head(values) + SumSeq(Tail(values))

RECURSIVE SumOf(_, _)
SumOf(value, keys) ==
    IF keys = {} THEN 0
    ELSE LET k == CHOOSE x \in keys : TRUE
         IN  value[k] + SumOf(value, keys \ {k})

\* fill_null(0)
FillNull(v) == IF v = Null THEN 0 ELSE v[1]

\* every="1mo": a window starts on the first day of a month and is labelled
\* with that day
MonthStart(date) == Date(YearOf(date), MonthOf(date), 1)

\* balances.py:47-52: the months that have a day from start_date to end_date
DateRange(start_date, end_date) ==
    {MonthStart(d) : d \in start_date..end_date}

\* balances.py:54-57: the cross join with the clients
DateClientRange(start_date, end_date, clients_close) ==
    DateRange(start_date, end_date) \X clients_close

\* balances.py:59-62: the sum of the invoice totals of each client and month
\* that has an invoice
InvoiceGroups(df) ==
    {<<MonthStart(df[i].sort_date), df[i].client>> : i \in 1..Len(df)}

InvoiceGroupTotal(df, k) ==
    SumSeq([i \in 1..Len(df) |->
              IF <<MonthStart(df[i].sort_date), df[i].client>> = k
              THEN df[i].total ELSE 0])

\* balances.py:59-70: the full join with the range gives the months of the
\* range a null total, which fill_null makes 0
InvoiceMonthly(df, range) ==
    { [sort_date |-> k[1], client |-> k[2],
       total |-> FillNull(IF k \in InvoiceGroups(df)
                          THEN Some(InvoiceGroupTotal(df, k)) ELSE Null)] :
      k \in InvoiceGroups(df) \cup range }

\* balances.py:72-75
ReceiptGroups(df) ==
    {<<MonthStart(df[i].sort_date), df[i].client>> : i \in 1..Len(df)}

ReceiptGroupAmount(df, k) ==
    SumSeq([i \in 1..Len(df) |->
              IF <<MonthStart(df[i].sort_date), df[i].client>> = k
              THEN df[i].amount ELSE 0])

\* balances.py:72-83
ReceiptsMonthly(df, range) ==
    { [sort_date |-> k[1], client |-> k[2],
       amount |-> FillNull(IF k \in ReceiptGroups(df)
                           THEN Some(ReceiptGroupAmount(df, k)) ELSE Null)] :
      k \in ReceiptGroups(df) \cup range }

\* balances.py:85-92: the full join of the two on client and month
JoinMonthly(invoice_monthly, receipts_monthly) ==
    LET left == {<<r.sort_date, r.client>> : r \in invoice_monthly}
        right == {<<r.sort_date, r.client>> : r \in receipts_monthly}
        total(k) == IF k \in left
                    THEN Some((CHOOSE r \in invoice_monthly :
                                 <<r.sort_date, r.client>> = k).total)
                    ELSE Null
        amount(k) == IF k \in right
                     THEN Some((CHOOSE r \in receipts_monthly :
                                  <<r.sort_date, r.client>> = k).amount)
                     ELSE Null
    IN  { [sort_date |-> k[1], client |-> k[2],
           total |-> FillNull(total(k)), amount |-> FillNull(amount(k))] :
          k \in left \cup right }

\* balances.py:102-105: (total - amount).cum_sum().over("client") on the
\* rows in order of sort_date
CumSumInWindow(rows, row) ==
    LET upto == {r \in rows : /\ r.client = row.client
                              /\ r.sort_date <= row.sort_date
                              /\ r.sort_date >= b_start_date}
    IN  SumOf([r \in upto |-> r.total - r.amount], upto)

CumSumOverClient(rows, row) ==
    LET upto == {r \in rows : r.client = row.client
                              /\ r.sort_date <= row.sort_date}
    IN  SumOf([r \in upto |-> r.total - r.amount], upto)

\* balances.py:107-109: balance.shift(1, fill_value=0).over("client")
ShiftOverAll(rows, row) ==
    LET before == {r \in rows :
                     \/ r.sort_date < row.sort_date
                     \/ r.sort_date = row.sort_date /\ r.client < row.client}
    IN  IF before = {} THEN 0
        ELSE (CHOOSE r \in before :
                \A q \in before :
                    \/ q.sort_date < r.sort_date
                    \/ q.sort_date = r.sort_date /\ q.client <= r.client).balance

ShiftOverClient(rows, row) ==
    LET before == {r \in rows : r.client = row.client
                                /\ r.sort_date < row.sort_date}
    IN  IF before = {} THEN 0
        ELSE (CHOOSE r \in before :
                \A q \in before : q.sort_date <= r.sort_date).balance

\* balances.py:37-122
ComputeMonthlyClientBalances(start_date, end_date, inv, rec, cli) ==
    LET range == DateClientRange(start_date, end_date, cli)
        joined == JoinMonthly(InvoiceMonthly(inv, range),
                              ReceiptsMonthly(rec, range))
        balanced == { [client |-> r.client, sort_date |-> r.sort_date,
                       invoiced |-> r.total, received |-> r.amount,
                       balance |-> CumSumOverClient(joined, r)] : r \in joined }
        opened == { [client |-> r.client, sort_date |-> r.sort_date,
                     open |-> ShiftOverClient(balanced, r),
                     invoiced |-> r.invoiced, received |-> r.received,
                     balance |-> r.balance] : r \in balanced }
    IN  {r \in opened : start_date <= r.sort_date /\ r.sort_date <= end_date}

\* the call (generate.py:138-144)
ComputeBalancesCall ==
    /\ bpc = "start"
    /\ df_balance' = ComputeMonthlyClientBalances(
                         b_start_date, b_end_date, df_invoices_close,
                         df_receipts_close, df_clients_close)
    /\ bpc' = "balanced"
    /\ UNCHANGED <<b_start_date, b_end_date, df_invoices_close,
                   df_receipts_close, df_clients_close,
                   df_balance_aggregated, outsideBalances>>

\* --------------------------------------------------- summarize_balance_data
\* dt.month_end()
MonthEnd(date) == Date(YearOf(date), MonthOf(date), DaysPerMonth)

\* balances.py:129-131: group_by("sort_date").agg(pl.all().sum()) and the
\* close_date column
MonthSums(balance_rows) ==
    { LET of_month == {r \in balance_rows : r.sort_date = m}
      IN  [sort_date |-> m,
           open |-> SumOf([r \in of_month |-> r.open], of_month),
           invoiced |-> SumOf([r \in of_month |-> r.invoiced], of_month),
           received |-> SumOf([r \in of_month |-> r.received], of_month),
           balance |-> SumOf([r \in of_month |-> r.balance], of_month),
           close_date |-> MonthEnd(m)] :
      m \in {r.sort_date : r \in balance_rows} }

\* balances.py:135: .filter((invoiced != 0) | (received != 0))
EveryMonth(rows) == rows

ActiveMonths(rows) == {r \in rows : r.invoiced # 0 \/ r.received # 0}

\* balances.py:136: .sort("sort_date"), of rows of distinct months
RECURSIVE SortBySortDate(_)
SortBySortDate(rows) ==
    IF rows = {} THEN <<>>
    ELSE LET first == CHOOSE r \in rows :
                          \A q \in rows : r.sort_date <= q.sort_date
         IN  <<first>> \o SortBySortDate(rows \ {first})

\* balances.py:125-138
SummarizeBalanceData(balance_rows) ==
    SortBySortDate(ActiveMonths(MonthSums(balance_rows)))

\* the call (generate.py:146)
SummarizeCall ==
    /\ bpc = "balanced"
    /\ df_balance_aggregated' = SummarizeBalanceData(df_balance)
    /\ bpc' = "done"
    /\ UNCHANGED <<b_start_date, b_end_date, df_invoices_close,
                   df_receipts_close, df_clients_close, df_balance,
                   outsideBalances>>

\* the dates of the first MaxMonth months of year 1
BalanceDates ==
    { Date(1, m, d) : m \in 1..MaxMonth, d \in 1..DaysPerMonth }

\* The close slices, rows in order of date: the function sorts them by
\* sort_date before it reads them (balances.py:60, 73) and only sums them.
CloseInvoiceFrames ==
    UNION { { s \in [1..n -> [client : 1..NumClients, sort_date : BalanceDates,
                              total : 1..MaxTotal]] :
                \A i, j \in 1..n : i < j => s[i].sort_date <= s[j].sort_date } :
            n \in 0..MaxCloseInvoices }

CloseReceiptFrames ==
    UNION { { s \in [1..n -> [client : 1..NumClients, sort_date : BalanceDates,
                              amount : 1..MaxAmount]] :
                \A i, j \in 1..n : i < j => s[i].sort_date <= s[j].sort_date } :
            n \in 0..MaxCloseReceipts }

\* A window that is not inverted, any close slices, and the clients of the
\* close slices (generate.py:110-120).
InitBalances ==
    /\ b_start_date \in BalanceDates
    /\ b_end_date \in {d \in BalanceDates : b_start_date <= d}
    /\ df_invoices_close \in CloseInvoiceFrames
    /\ df_receipts_close \in CloseReceiptFrames
    /\ df_clients_close = UniqueClients(df_invoices_close)
                              \cup UniqueClients(df_receipts_close)
    /\ df_balance = {}
    /\ df_balance_aggregated = <<>>
    /\ bpc = "start"
    /\ SummaryIdle
    /\ FanoutIdle
    /\ MatcherIdle
    /\ CallerIdle
    /\ DriverIdle
    /\ PeriodsIdle
    /\ GenerateIdle
    /\ NormalizeIdle

NextBalances ==
    \/ ComputeBalancesCall
    \/ SummarizeCall

SpecBalances == InitBalances /\ [][NextBalances]_vars

\* ===================================================================
\* Properties of match_payments_by_client (specification SpecDriver)
\* ===================================================================

HasReceipts(c) == \E k \in 1..Len(df_receipts) : df_receipts[k].client = c

\* the row without the column the driver adds
Without(row, column) == [f \in DOMAIN row \ {column} |-> row[f]]

\* C8: every invoice of a client that has no receipt is returned with
\* balance = total, whatever receipts other clients have.
C8_NoReceiptsBalanceIsTotal ==
    dpc = "done" =>
        /\ Len(df_invoices_out.rows) = Len(df_invoices)
        /\ \A i \in 1..Len(df_invoices) :
              ~HasReceipts(df_invoices[i].client) =>
                  /\ "balance" \in df_invoices_out.columns
                  /\ df_invoices_out.rows[i].balance = Some(df_invoices[i].total)

\* C9: with receipts present, the returned invoices are the input invoices,
\* in order, each with the balance of the unpaid entry that has its number and
\* a null balance if there is none, as for every invoice of a client the
\* matcher was not called for; the returned receipts are the input receipts,
\* in order, each with the allocation list of the matched entry that has its
\* number, and null if there is none.
C9_LeftJoin ==
    (dpc = "done" /\ df_receipts # <<>>) =>
        /\ df_invoices_out.columns = InvoiceFrame(df_invoices).columns \cup {"balance"}
        /\ Len(df_invoices_out.rows) = Len(df_invoices)
        /\ \A i \in 1..Len(df_invoices) :
              LET row == df_invoices_out.rows[i]
                  hits == {k \in 1..Len(unpaid) :
                              unpaid[k].number = df_invoices[i].number}
              IN  /\ Without(row, "balance") = df_invoices[i]
                  /\ hits # {} =>
                        \A k \in hits : row.balance = Some(unpaid[k].balance)
                  /\ hits = {} => row.balance = Null
                  /\ ~HasReceipts(df_invoices[i].client) => row.balance = Null
        /\ df_receipts_out.columns = ReceiptFrame(df_receipts).columns \cup {"invoices"}
        /\ Len(df_receipts_out.rows) = Len(df_receipts)
        /\ \A i \in 1..Len(df_receipts) :
              LET row == df_receipts_out.rows[i]
                  hits == {k \in 1..Len(matched) :
                              matched[k].receipt = df_receipts[i].number}
              IN  /\ Without(row, "invoices") = df_receipts[i]
                  /\ hits # {} =>
                        \A k \in hits : row.invoices = Some(matched[k].invoices)
                  /\ hits = {} => row.invoices = Null

\* one client's invoice is left partly paid, the other client has no receipt
C9_Witness ==
    /\ dpc = "done"
    /\ Len(df_invoices) = 2 /\ Len(df_receipts) = 1
    /\ df_invoices[1].client = df_receipts[1].client
    /\ df_invoices[2].client # df_receipts[1].client
    /\ df_invoices_out.rows[1].balance = Some(1)
    /\ df_invoices[1].total = 2
    /\ df_invoices_out.rows[2].balance = Null
    /\ df_receipts_out.rows[1].invoices =
           Some(<<[invoice |-> df_invoices[1].number, amount |-> 1]>>)

\* C10: with both inputs empty the inputs are returned as they are, without
\* a balance column; with only the receipts empty the per-client loop never
\* runs, every invoice gets balance = total and the receipts are returned as
\* they are.
C10_EmptyInputs ==
    dpc = "done" =>
        /\ (df_invoices = <<>> /\ df_receipts = <<>>) =>
              /\ df_invoices_out = InvoiceFrame(df_invoices)
              /\ df_receipts_out = ReceiptFrame(df_receipts)
        /\ df_receipts = <<>> =>
              /\ pc = "idle" /\ matched = <<>> /\ unpaid = <<>>
              /\ df_receipts_out = ReceiptFrame(df_receipts)
        /\ (df_invoices # <<>> /\ df_receipts = <<>>) =>
              /\ df_invoices_out.columns =
                     InvoiceFrame(df_invoices).columns \cup {"balance"}
              /\ Len(df_invoices_out.rows) = Len(df_invoices)
              /\ \A i \in 1..Len(df_invoices) :
                    /\ Without(df_invoices_out.rows[i], "balance") = df_invoices[i]
                    /\ df_invoices_out.rows[i].balance = Some(df_invoices[i].total)

\* two invoices of different totals and clients, no receipt
C10_Witness ==
    /\ dpc = "done"
    /\ df_receipts = <<>>
    /\ Len(df_invoices) = 2
    /\ df_invoices[1].total # df_invoices[2].total
    /\ df_invoices[1].client # df_invoices[2].client
    /\ df_invoices_out.rows[1].balance = Some(df_invoices[1].total)
    /\ df_invoices_out.rows[2].balance = Some(df_invoices[2].total)

\* ------------------------------------------------------- client isolation
\* the rows of one client, and nothing else of the frame
OwnRows(df, c) == SelectSeq(df, LAMBDA row : row.client = c)

\* FIFO payment of one amount from a queue of [number, balance]
RECURSIVE PayFrom(_, _)
PayFrom(queue, left) ==
    IF left > 0 /\ queue # <<>>
    THEN IF left >= queue[1].balance
         THEN LET rest == PayFrom(Tail(queue), left - queue[1].balance)
              IN  [entries |-> <<[invoice |-> queue[1].number,
                                  amount |-> queue[1].balance]>> \o rest.entries,
                   queue |-> rest.queue]
         ELSE [entries |-> <<[invoice |-> queue[1].number, amount |-> left]>>,
               queue |-> [queue EXCEPT ![1].balance = @ - left]]
    ELSE [entries |-> IF left > 0
                      THEN <<[invoice |-> None, amount |-> left]>>
                      ELSE <<>>,
          queue |-> queue]

\* the receipts of one client paid in turn from that client's queue
RECURSIVE MatchOwn(_, _)
MatchOwn(queue, recs) ==
    IF recs = <<>> THEN [matched |-> <<>>, unpaid |-> queue]
    ELSE LET paid == PayFrom(queue, Head(recs).amount)
             rest == MatchOwn(paid.queue, Tail(recs))
         IN  [matched |-> <<[receipt |-> Head(recs).number,
                             invoices |-> paid.entries]>> \o rest.matched,
              unpaid |-> rest.unpaid]

\* What match_payments_by_client returns for the records of client c when no
\* other client's record is in the input: the balance of each of its invoices
\* and the allocation list of each of its receipts, for every date-ascending
\* order the sort may produce.
AloneResults(c) ==
    LET inv == OwnRows(df_invoices, c)
        rec == OwnRows(df_receipts, c)
    IN  IF rec = <<>>
        THEN { [balance |-> [i \in 1..Len(inv) |-> Some(inv[i].total)],
                invoices |-> <<>>] }
        ELSE { LET own == MatchOwn([i \in 1..Len(io) |->
                                      [number |-> io[i].number,
                                       balance |-> io[i].total]], ro)
               IN  [balance |-> [i \in 1..Len(inv) |->
                       LET hits == SelectSeq(own.unpaid,
                                       LAMBDA u : u.number = inv[i].number)
                       IN  IF hits = <<>> THEN Null ELSE Some(hits[1].balance)],
                    invoices |-> [i \in 1..Len(rec) |->
                       LET hits == SelectSeq(own.matched,
                                       LAMBDA m : m.receipt = rec[i].number)
                       IN  IF hits = <<>> THEN Null ELSE Some(hits[1].invoices)]]
               : io \in SortedByDate(inv), ro \in SortedByDate(rec) }

\* what was returned for client c
ReturnedFor(c) ==
    LET inv == OwnRows(df_invoices_out.rows, c)
        rec == OwnRows(df_receipts_out.rows, c)
    IN  [balance |-> [i \in 1..Len(inv) |-> inv[i].balance],
         invoices |-> [i \in 1..Len(rec) |-> rec[i].invoices]]

ClientOfInvoice(n) ==
    {df_invoices[i].client : i \in {k \in 1..Len(df_invoices) :
                                       df_invoices[k].number = n}}

\* every allocation that names an invoice names one of the receipt's client
SameClientAllocations ==
    \A i \in 1..Len(df_receipts_out.rows) :
        LET row == df_receipts_out.rows[i] IN
        row.invoices # Null =>
            \A k \in 1..Len(row.invoices[1]) :
                row.invoices[1][k].invoice # None =>
                    ClientOfInvoice(row.invoices[1][k].invoice) = {row.client}

\* C11: every non-null allocation of a receipt references an invoice of the
\* receipt's client, and the balances and allocations returned for a client
\* are those its own invoices and receipts give when every other client's
\* records are removed from the input.
C11_ClientIsolation ==
    (dpc = "done" /\ ~(df_invoices = <<>> /\ df_receipts = <<>>)) =>
        /\ SameClientAllocations
        /\ \A c \in 1..NumClients : ReturnedFor(c) \in AloneResults(c)

\* The same for the clients the matcher is called for, those with a receipt.
C11_IsolationAmongPayers ==
    (dpc = "done" /\ df_receipts # <<>>) =>
        /\ SameClientAllocations
        /\ \A c \in 1..NumClients :
              HasReceipts(c) => ReturnedFor(c) \in AloneResults(c)

\* both clients have an invoice and a receipt, and each receipt pays its own
\* client's invoice
C11_PayersWitness ==
    /\ dpc = "done"
    /\ Len(df_invoices) = 2 /\ Len(df_receipts) = 2
    /\ df_invoices[1].client = 2 /\ df_invoices[2].client = 1
    /\ df_receipts[1].client = 1 /\ df_receipts[2].client = 2
    /\ df_receipts_out.rows[1].invoices[1][1].invoice = 2
    /\ df_receipts_out.rows[2].invoices[1][1].invoice = 1

\* ===================================================================
\* Properties of slice_period_frames (specification SpecPeriods)
\* ===================================================================

RowSet(df) == {df[i] : i \in 1..Len(df)}

\* the same records, each once
SameRecords(df, rows) == RowSet(df) = rows /\ Len(df) = Cardinality(rows)

InWindow(row) ==
    /\ p_start_date # None => p_start_date <= row.sort_date
    /\ p_end_date # None => row.sort_date <= p_end_date

AscendingByNumber(df) ==
    \A i, j \in 1..Len(df) : i < j => df[i].number < df[j].number

\* C12: invoices_report and receipts_report hold exactly the input records
\* with start_date <= sort_date <= end_date, a bound that is absent not being
\* applied and both bounds being inclusive, in ascending order of number.
C12_ReportSlices ==
    ppc = "done" =>
        /\ SameRecords(frames.invoices_report,
                       {row \in RowSet(p_invoices) : InWindow(row)})
        /\ SameRecords(frames.receipts_report,
                       {row \in RowSet(p_receipts) : InWindow(row)})
        /\ AscendingByNumber(frames.invoices_report)
        /\ AscendingByNumber(frames.receipts_report)

\* both bounds present, a record on each bound, the input neither in number
\* order nor in date order of its numbers
C12_Witness ==
    /\ ppc = "done"
    /\ p_start_date = 1 /\ p_end_date = 2
    /\ p_invoices = <<[number |-> 2, sort_date |-> 1],
                      [number |-> 1, sort_date |-> 2]>>
    /\ frames.invoices_report = <<[number |-> 1, sort_date |-> 2],
                                  [number |-> 2, sort_date |-> 1]>>
    /\ p_receipts = <<[number |-> 2, sort_date |-> 3],
                      [number |-> 1, sort_date |-> 1]>>
    /\ frames.receipts_report = <<[number |-> 1, sort_date |-> 1]>>

\* C13: the open slices hold exactly the input records with
\* sort_date < start_date, none when start_date is absent, whatever end_date
\* is; the close slices hold exactly the input records with
\* sort_date <= end_date, all of them when end_date is absent, whatever
\* start_date is.
C13_OpenCloseSlices ==
    ppc = "done" =>
        /\ SameRecords(frames.invoices_open,
              {row \in RowSet(p_invoices) :
                  p_start_date # None /\ row.sort_date < p_start_date})
        /\ SameRecords(frames.receipts_open,
              {row \in RowSet(p_receipts) :
                  p_start_date # None /\ row.sort_date < p_start_date})
        /\ SameRecords(frames.invoices_close,
              {row \in RowSet(p_invoices) :
                  p_end_date = None \/ row.sort_date <= p_end_date})
        /\ SameRecords(frames.receipts_close,
              {row \in RowSet(p_receipts) :
                  p_end_date = None \/ row.sort_date <= p_end_date})

\* a record before the start is in the close slice, a record on the start is
\* not in the open slice, a record after the end is in neither
C13_Witness ==
    /\ ppc = "done"
    /\ p_start_date = 2 /\ p_end_date = 2
    /\ p_invoices = <<[number |-> 1, sort_date |-> 1],
                      [number |-> 2, sort_date |-> 2]>>
    /\ frames.invoices_open = <<[number |-> 1, sort_date |-> 1]>>
    /\ frames.invoices_close = p_invoices
    /\ p_receipts = <<[number |-> 1, sort_date |-> 3],
                      [number |-> 2, sort_date |-> 1]>>
    /\ frames.receipts_open = <<[number |-> 2, sort_date |-> 1]>>
    /\ frames.receipts_close = <<[number |-> 2, sort_date |-> 1]>>

\* ===================================================================
\* Properties of generate (specification SpecGenerate)
\* ===================================================================

Inverted(k) ==
    /\ output[k].start_date # None /\ output[k].end_date # None
    /\ output[k].start_date > output[k].end_date

\* C14: an output whose start_date is after its end_date raises ValueError,
\* and raises it before slice_period_frames has produced frames for that
\* output; an output with at most one bound, or with start_date <= end_date,
\* raises no such error.
C14_RaisedBeforeSlicing ==
    /\ \A k \in sliced : ~Inverted(k)
    /\ \A k \in written : ~Inverted(k)
    /\ (gpc = "write" => ~Inverted(key))
    /\ (gpc = "raised" /\ output[key].path # "") => Inverted(key)

\* The same without the order of raising and slicing: the inverted output is
\* never written and ends the run with ValueError, and no other window does.
C14_RaisedBeforeWriting ==
    /\ \A k \in written : ~Inverted(k)
    /\ (gpc = "write" => ~Inverted(key))
    /\ (gpc = "raised" /\ output[key].path # "") => Inverted(key)

Processable(k) == output[k].path # "" /\ ~Inverted(k)

\* C15: when generate has ended, every output that has no error of its own
\* has been written, whether an output before it or after it raised.
C15_FailureIsolation ==
    gpc \in {"done", "raised"} =>
        \A k \in 1..Len(output) : Processable(k) => k \in written

\* The outputs before the failing one are written, those after it are not.
C15_EarlierOutputsOnly ==
    gpc = "raised" =>
        /\ \A k \in 1..Len(output) :
              (k < key /\ Processable(k)) => k \in written
        /\ \A k \in 1..Len(output) : k >= key => k \notin written

\* ===================================================================
\* Properties of normalize_date_period (specification SpecNormalize)
\* ===================================================================

\* the calendar months since year 0 before the month of the date
MonthsBefore(date) == YearOf(date) * 12 + MonthOf(date) - 1

\* the calendar months the window from..to touches
MonthsSpanned(from, to) ==
    IF from > to THEN 0 ELSE MonthsBefore(to) - MonthsBefore(from) + 1

\* C16: the returned end_date is the given one, or today when none is given;
\* the returned start_date is the first day of the month eleven months
\* before end_date's month (January 1 of the same year for a December end,
\* else the 1st of the month after end_date's month in the year before) when
\* start_date is absent or earlier than that day, and the given start_date
\* otherwise; the returned window touches at most 12 calendar months.
C16_NormalizedPeriod ==
    npc = "done" =>
        LET start == normalized[1]
            end == normalized[2]
            expected == IF MonthOf(end) = 12
                        THEN Date(YearOf(end), 1, 1)
                        ELSE Date(YearOf(end) - 1, MonthOf(end) + 1, 1)
        IN  /\ end = IF n_end_date = None THEN today ELSE n_end_date
            /\ (n_start_date = None \/ n_start_date < expected) =>
                   start = expected
            /\ (n_start_date # None /\ n_start_date >= expected) =>
                   start = n_start_date
            /\ MonthsSpanned(start, end) <= 12
            /\ DayOf(expected) = 1
            /\ MonthsSpanned(expected, end) = 12

\* a start more than a year before a November end is moved to December 1 of
\* the year before
C16_Witness ==
    /\ npc = "done"
    /\ n_end_date = Date(2, 11, DaysPerMonth)
    /\ n_start_date = Date(0, 5, 1)
    /\ normalized = <<Date(1, 12, 1), Date(2, 11, DaysPerMonth)>>

\* ===================================================================
\* Properties of compute_monthly_client_balances and
\* summarize_balance_data (specification SpecBalances)
\* ===================================================================

Computed == bpc \in {"balanced", "done"}

\* the rows of a client and a month
RowsOf(c, month) ==
    {r \in df_balance : r.client = c /\ r.sort_date = month}

\* the sum of the values of a column over the rows of a frame that a test
\* accepts
RECURSIVE SumWhere(_, _, _)
SumWhere(df, column, accepts) ==
    IF df = <<>> THEN 0
    ELSE (IF accepts[Head(df)] THEN Head(df)[column] ELSE 0)
             + SumWhere(Tail(df), column, accepts)

\* what the client owes at the end of the month that starts on the date:
\* every invoice total less every receipt amount of the client in the close
\* slices dated in that month or before
OwedAtEndOf(c, month) ==
    SumWhere(df_invoices_close, "total",
             [r \in RowSet(df_invoices_close) |->
                 r.client = c /\ MonthsBefore(r.sort_date) <= MonthsBefore(month)])
    - SumWhere(df_receipts_close, "amount",
             [r \in RowSet(df_receipts_close) |->
                 r.client = c /\ MonthsBefore(r.sort_date) <= MonthsBefore(month)])

\* the client has an invoice or a receipt dated in the month
ActiveIn(c, month) ==
    \/ \E r \in RowSet(df_invoices_close) :
          r.client = c /\ MonthsBefore(r.sort_date) = MonthsBefore(month)
    \/ \E r \in RowSet(df_receipts_close) :
          r.client = c /\ MonthsBefore(r.sort_date) = MonthsBefore(month)

\* C17: for every client and every two rows of the output for consecutive
\* calendar months, the balance of the earlier month is the open of the
\* later month.
C17_BalanceContinuity ==
    Computed =>
        \A r, q \in df_balance :
            (r.client = q.client
             /\ MonthsBefore(q.sort_date) = MonthsBefore(r.sort_date) + 1)
                => r.balance = q.open

\* both clients have rows for months 1 and 2, with different balances carried
\* into month 2
C17_Witness ==
    /\ Computed
    /\ \E r, q, t, u \in df_balance :
          /\ r.client = 1 /\ q.client = 1 /\ t.client = 2 /\ u.client = 2
          /\ MonthOf(r.sort_date) = 1 /\ MonthOf(q.sort_date) = 2
          /\ MonthOf(t.sort_date) = 1 /\ MonthOf(u.sort_date) = 2
          /\ r.balance = 2 /\ q.open = 2
          /\ t.balance = 1 /\ u.open = 1

\* the months that have a day in start_date..end_date
MonthsOfWindow ==
    {Date(YearOf(d), MonthOf(d), 1) : d \in b_start_date..b_end_date}

\* one row for the client and the month, and if the client was silent in the
\* month, a row that carries the balance
OneRow(c, month) ==
    /\ Cardinality(RowsOf(c, month)) = 1
    /\ ~ActiveIn(c, month) =>
          \A r \in RowsOf(c, month) :
              /\ r.invoiced = 0 /\ r.received = 0
              /\ r.open = r.balance
              /\ r.balance = OwedAtEndOf(c, month - 1)

\* C18: for every client of clients_close and every calendar month that has
\* a day in start_date..end_date, the month of start_date included when
\* start_date is not its first day, the output has exactly one row; the row
\* of a month without activity of the client has invoiced = 0, received = 0
\* and open = balance = the closing balance of the month before.
C18_RowCompleteness ==
    Computed =>
        \A c \in df_clients_close : \A month \in MonthsOfWindow :
            OneRow(c, month)

\* The same for the months whose first day is in start_date..end_date.
C18_RowsOfMonthsStartingInWindow ==
    Computed =>
        /\ \A c \in df_clients_close : \A month \in MonthsOfWindow :
              (b_start_date <= month) => OneRow(c, month)
        /\ \A r \in df_balance :
              /\ r.client \in df_clients_close
              /\ r.sort_date \in MonthsOfWindow
              /\ b_start_date <= r.sort_date

\* C19: the balance of every output row is the sum of all the client's
\* invoice totals less the sum of all its receipt amounts in the close slices
\* dated up to the end of the row's month, those dated before start_date
\* included, whatever start_date is.
C19_CumulativeBeforeFilter ==
    Computed =>
        \A r \in df_balance : r.balance = OwedAtEndOf(r.client, r.sort_date)

\* an invoice dated before the window is in the balance of a row of the
\* window, a month in which the client had no activity
C19_Witness ==
    /\ Computed
    /\ MonthOf(b_start_date) = 2
    /\ df_invoices_close =
           <<[client |-> 1, sort_date |-> Date(1, 1, 2), total |-> 2]>>
    /\ df_receipts_close =
           <<[client |-> 1, sort_date |-> Date(1, 3, 1), amount |-> 1]>>
    /\ \E r \in df_balance :
          /\ r.sort_date = Date(1, 2, 1)
          /\ r.invoiced = 0 /\ r.received = 0
          /\ r.open = 2 /\ r.balance = 2
    /\ \E r \in df_balance :
          /\ r.sort_date = Date(1, 3, 1)
          /\ r.open = 2 /\ r.received = 1 /\ r.balance = 1

\* the sum of a column over the rows of all clients for a month
MonthTotal(column, month) ==
    LET of_month == {r \in df_balance : r.sort_date = month}
    IN  SumOf([r \in of_month |-> r[column]], of_month)

RollupMonths ==
    {df_balance_aggregated[i].sort_date :
        i \in 1..Len(df_balance_aggregated)}

RollupOfBalances ==
    bpc = "done" =>
        /\ \A i, j \in 1..Len(df_balance_aggregated) :
              i < j => df_balance_aggregated[i].sort_date
                           < df_balance_aggregated[j].sort_date
        /\ \A i \in 1..Len(df_balance_aggregated) :
              LET row == df_balance_aggregated[i] IN
              /\ row.open = MonthTotal("open", row.sort_date)
              /\ row.invoiced = MonthTotal("invoiced", row.sort_date)
              /\ row.received = MonthTotal("received", row.sort_date)
              /\ row.balance = MonthTotal("balance", row.sort_date)
        /\ \A month \in {r.sort_date : r \in df_balance} :
              month \in RollupMonths <=>
                  (MonthTotal("invoiced", month) # 0
                   \/ MonthTotal("received", month) # 0)
        /\ RollupMonths \subseteq {r.sort_date : r \in df_balance}

\* C20: the rollup has at most one row for a month, in ascending order of
\* month, with open, invoiced, received and balance the sums of those columns
\* over the rows of all clients for that month; a month of the balance rows
\* is in the rollup if and only if its summed invoiced or its summed received
\* is not zero; and summarizing leaves the balance rows as they were.
C20_Rollup ==
    /\ []RollupOfBalances
    /\ [][bpc = "balanced" => df_balance' = df_balance]_vars

\* two clients are invoiced in month 1, one pays in month 2, nobody is active
\* in month 3: the rollup has months 1 and 2, the balance rows keep month 3
C20_Witness ==
    /\ bpc = "done"
    /\ df_balance_aggregated =
          <<[sort_date |-> Date(1, 1, 1), open |-> 0, invoiced |-> 3,
             received |-> 0, balance |-> 3,
             close_date |-> Date(1, 1, DaysPerMonth)],
            [sort_date |-> Date(1, 2, 1), open |-> 3, invoiced |-> 0,
             received |-> 1, balance |-> 2,
             close_date |-> Date(1, 2, DaysPerMonth)]>>
    /\ Cardinality(df_balance) = 6
    /\ \E r \in df_balance :
          /\ r.client = 2 /\ r.sort_date = Date(1, 3, 1)
          /\ r.invoiced = 0 /\ r.received = 0 /\ r.balance = 1

\* ===================================================================
\* Further properties of match_payments (specification Spec)
\* ===================================================================

Max(a, b) == IF a >= b THEN a ELSE b

PositiveReceipts == \A i \in 1..Len(receipts) : receipts[i].amount > 0

\* T and R: what the numbered invoices bill and what the receipts pay
TotalBilled ==
    SumSeq([i \in 1..Len(invoices) |->
                 IF invoices[i].number # None THEN invoices[i].total ELSE 0])

TotalReceived == SumAmounts(receipts)

UnpaidSum ==
    SumSeq([k \in 1..Len(unmatched_invoices) |->
                 unmatched_invoices[k].balance])

AdvanceSum ==
    SumAmounts(SelectSeq(AllocationsSoFar, LAMBDA a : a.invoice = None))

\* C26: for receipts of positive amount (all totals of the model are >= 0),
\* when match_payments returns the unpaid balances sum to max(0, T - R) and
\* the advance allocations sum to max(0, R - T), T being the sum of the
\* totals of the numbered invoices and R the sum of the receipt amounts; so
\* not both are positive.
C26_ResidualTotals ==
    (pc = "done" /\ PositiveReceipts) =>
        /\ UnpaidSum = Max(0, TotalBilled - TotalReceived)
        /\ AdvanceSum = Max(0, TotalReceived - TotalBilled)
        /\ ~(UnpaidSum > 0 /\ AdvanceSum > 0)

\* two invoices billed 3 in all and two receipts paying 2 in all leave 1
\* unpaid and no advance
C26_Witness ==
    /\ pc = "done" /\ run = "first"
    /\ Len(invoices) = 2 /\ Len(receipts) = 2
    /\ PositiveReceipts
    /\ TotalBilled = 3 /\ TotalReceived = 2
    /\ UnpaidSum = 1 /\ AdvanceSum = 0

\* the total of the numbered invoice with the number
TotalOf(n) ==
    invoices[CHOOSE i \in 1..Len(invoices) : invoices[i].number = n].total

\* C27: for receipts of positive amount, at every step of the matching loop
\* every queued invoice has 0 <= balance <= total, only the head of the
\* queue can have a balance other than its total, and every allocation
\* emitted is >= 0 and at most the amount of its receipt; so in the returned
\* unpaid_invoices only the first entry can be partially paid.
C27_QueueInvariant ==
    (Live /\ PositiveReceipts) =>
        /\ \A k \in 1..Len(unmatched_invoices) :
              /\ 0 <= unmatched_invoices[k].balance
              /\ unmatched_invoices[k].balance
                     <= TotalOf(unmatched_invoices[k].number)
              /\ k > 1 => unmatched_invoices[k].balance
                              = TotalOf(unmatched_invoices[k].number)
        /\ \A i \in 1..Len(matched_payments) :
              \A k \in 1..Len(matched_payments[i].invoices) :
                  /\ 0 <= matched_payments[i].invoices[k].amount
                  /\ matched_payments[i].invoices[k].amount <= receipts[i].amount
        /\ pc = "while" =>
              \A k \in 1..Len(matches) :
                  /\ 0 <= matches[k].amount
                  /\ matches[k].amount <= receipts[receipt_idx].amount

\* the call returns a queue of two whose head is partly paid and whose
\* second entry is untouched
C27_Witness ==
    /\ pc = "done" /\ run = "first"
    /\ PositiveReceipts
    /\ Len(unmatched_invoices) = 2
    /\ unmatched_invoices[1].balance = 1
    /\ TotalOf(unmatched_invoices[1].number) = 2
    /\ unmatched_invoices[2].balance = 2

\* ===================================================================
\* Further properties of match_payments_by_client (specification SpecDriver)
\* ===================================================================

\* the row of the frame that has the number
RowOf(df, n) == df[CHOOSE i \in 1..Len(df) : df[i].number = n]

\* the position of that row in the frame
InputPosition(df, n) == CHOOSE i \in 1..Len(df) : df[i].number = n

\* the records are in ascending order of sort_date, and those of one date in
\* the order they have in the frame
StableDateOrder(records, df) ==
    \A i, j \in 1..Len(records) :
        i < j =>
            \/ RowOf(df, records[i].number).sort_date
                   < RowOf(df, records[j].number).sort_date
            \/ /\ RowOf(df, records[i].number).sort_date
                      = RowOf(df, records[j].number).sort_date
               /\ InputPosition(df, records[i].number)
                      < InputPosition(df, records[j].number)

\* the same without the order among records of one date
DateOrder(records, df) ==
    \A i, j \in 1..Len(records) :
        i < j => RowOf(df, records[i].number).sort_date
                     <= RowOf(df, records[j].number).sort_date

\* C24: the matcher is called with the client's invoices in ascending order
\* of sort_date and its receipts in ascending order of sort_date, records of
\* equal sort_date staying in the order of the input frame.
C24_StableFifoByDate ==
    dpc = "call" =>
        /\ StableDateOrder(invoices, df_invoices)
        /\ StableDateOrder(receipts, df_receipts)

\* Ascending by date holds; only the order within a date is open.
C24_FifoByDate ==
    dpc = "call" =>
        /\ DateOrder(invoices, df_invoices)
        /\ DateOrder(receipts, df_receipts)
        /\ \A i \in 1..Len(invoices) :
              RowOf(df_invoices, invoices[i].number).client = client_id
        /\ \A i \in 1..Len(receipts) :
              RowOf(df_receipts, receipts[i].number).client = client_id

\* ===================================================================
\* generate: the core computations of one output configuration
\* (generate.py:92-146 and 272-282, include_summary set)
\* ===================================================================

\* ---------------------------------------------------- build_client_summaries
\* summaries.py:20-54: group_by("client").agg(pl.count("number"), ...) has a
\* row for the clients of the frame only; Null is the null the left join
\* (summaries.py:59-62) gives the other clients.
CountOfClient(df, c) ==
    IF c \in UniqueClients(df) THEN Some(Len(FilterClient(df, c))) ELSE Null

InvoiceTotalOfClient(df, c) ==
    IF c \in UniqueClients(df)
    THEN Some(SumSeq([i \in 1..Len(df) |->
                        IF df[i].client = c THEN df[i].total ELSE 0]))
    ELSE Null

ReceiptTotalOfClient(df, c) ==
    IF c \in UniqueClients(df)
    THEN Some(SumSeq([i \in 1..Len(df) |->
                        IF df[i].client = c THEN df[i].amount ELSE 0]))
    ELSE Null

\* summaries.py:72-77: a count of the period
CloseCount(close, open) == close

PeriodCount(close, open) == close - open

\* summaries.py:87-89: closing_balance
BilledAtClose(invoice_total_close, receipt_total_close) ==
    invoice_total_close

ClosingBalance(invoice_total_close, receipt_total_close) ==
    invoice_total_close - receipt_total_close

\* summaries.py:56-90: one row for each client of df_clients
ClientSummaryRow(c, inv_open, inv_close, rec_open, rec_close) ==
    LET invoice_count_open == FillNull(CountOfClient(inv_open, c))
        invoice_count_close == FillNull(CountOfClient(inv_close, c))
        receipt_count_open == FillNull(CountOfClient(rec_open, c))
        receipt_count_close == FillNull(CountOfClient(rec_close, c))
        invoice_total_open == FillNull(InvoiceTotalOfClient(inv_open, c))
        invoice_total_close == FillNull(InvoiceTotalOfClient(inv_close, c))
        receipt_total_open == FillNull(ReceiptTotalOfClient(rec_open, c))
        receipt_total_close == FillNull(ReceiptTotalOfClient(rec_close, c))
    IN  [client |-> c,
         invoice_count |-> PeriodCount(invoice_count_close, invoice_count_open),
         receipt_count |-> PeriodCount(receipt_count_close, receipt_count_open),
         invoice_total |-> invoice_total_close - invoice_total_open,
         receipt_total |-> receipt_total_close - receipt_total_open,
         opening_balance |-> invoice_total_open - receipt_total_open,
         closing_balance |-> ClosingBalance(invoice_total_close,
                                            receipt_total_close)]

\* summaries.py:91: .sort("closing_balance", "invoice_total",
\* descending=True); rows equal in both may come out in either order.
SortedSummaries(rows) ==
    { s \in [1..Cardinality(rows) -> rows] :
        /\ \A i, j \in 1..Cardinality(rows) : i # j => s[i] # s[j]
        /\ \A i, j \in 1..Cardinality(rows) :
              i < j =>
                \/ s[i].closing_balance > s[j].closing_balance
                \/ /\ s[i].closing_balance = s[j].closing_balance
                   /\ s[i].invoice_total >= s[j].invoice_total }

\* summaries.py:10-94: the frames build_client_summaries may return
BuildClientSummaries(cli, inv_open, inv_close, rec_open, rec_close) ==
    SortedSummaries({ ClientSummaryRow(c, inv_open, inv_close,
                                       rec_open, rec_close) : c \in cli })

\* ---------------------------------------------------- build_status_breakdown
\* summaries.py:101-106
StatusOfNonNegative(closing_balance) ==
    IF closing_balance >= 0 THEN "Outstanding" ELSE "Advance"

StatusOf(closing_balance) ==
    IF closing_balance > 0 THEN "Outstanding"
    ELSE IF closing_balance < 0 THEN "Advance"
    ELSE "Settled"

\* summaries.py:108-112: group_by("status").agg(count, sum)
StatusGroups(summaries) ==
    { LET of_status == {i \in 1..Len(summaries) :
                          StatusOf(summaries[i].closing_balance) = st}
      IN  [status |-> st,
           Clients |-> Cardinality(of_status),
           amount |-> SumOf([i \in of_status |->
                               summaries[i].closing_balance], of_status)] :
      st \in {StatusOf(summaries[i].closing_balance) :
                i \in 1..Len(summaries)} }

\* summaries.py:113-114: the sort of a Categorical column follows the order
\* in which group_by, which keeps no order, met the categories: the rows may
\* come out in any order.
BuildStatusBreakdown(summaries) ==
    { s \in [1..Cardinality(StatusGroups(summaries))
               -> StatusGroups(summaries)] :
        \A i, j \in 1..Cardinality(StatusGroups(summaries)) :
            i # j => s[i] # s[j] }

\* ---------------------------------------------- build_client_transactions_df
\* transactions.py:17-36: the invoices, then the receipts with the amount
\* negated
LedgerRows(inv_close, rec_close) ==
    [i \in 1..(Len(inv_close) + Len(rec_close)) |->
        IF i <= Len(inv_close)
        THEN [sort_date |-> inv_close[i].sort_date,
              client |-> inv_close[i].client,
              type |-> "Invoice",
              reference |-> inv_close[i].number,
              amount |-> inv_close[i].total]
        ELSE [sort_date |-> rec_close[i - Len(inv_close)].sort_date,
              client |-> rec_close[i - Len(inv_close)].client,
              type |-> "Receipt",
              reference |-> rec_close[i - Len(inv_close)].number,
              amount |-> 0 - rec_close[i - Len(inv_close)].amount]]

\* transactions.py:38: pl.col("amount").cum_sum().over("client")
CumSumOverAll(rows, i) ==
    SumSeq([j \in 1..i |-> rows[j].amount])

CumSumOverClientRows(rows, i) ==
    SumSeq([j \in 1..i |->
              IF rows[j].client = rows[i].client THEN rows[j].amount ELSE 0])

\* transactions.py:9-42; .sort("sort_date") at line 37 keeps no order among
\* the rows of one date, and start_date and end_date are dates (generate
\* passes the normalized period).
BuildClientTransactions(start_date, end_date, inv_close, rec_close) ==
    { SelectSeq([i \in 1..Len(sorted) |->
                    [sort_date |-> sorted[i].sort_date,
                     client |-> sorted[i].client,
                     type |-> sorted[i].type,
                     reference |-> sorted[i].reference,
                     amount |-> sorted[i].amount,
                     balance |-> CumSumOverClientRows(sorted, i)]],
                LAMBDA row : start_date <= row.sort_date
                             /\ row.sort_date <= end_date) :
      sorted \in SortedByDate(LedgerRows(inv_close, rec_close)) }

\* -------------------------------------------------------------- the steps
\* generate.py:95-103
SliceReport ==
    /\ spc = "slice"
    /\ s_frames' \in SlicePeriodFrames(s_invoices, s_receipts,
                                       s_start_date, s_end_date)
    /\ spc' = "text"
    /\ UNCHANGED <<s_invoices, s_receipts, s_start_date, s_end_date, s_now,
                   df_client_summaries, df_status_breakdown, s_period,
                   s_balance, s_balance_aggregated, df_transactions,
                   outsideSummary>>

\* generate.py:105-107: get_reporting_period_text raises
ReportTextRaises ==
    /\ spc = "text"
    /\ GetReportingPeriodText(s_start_date, s_end_date) = ValueError
    /\ spc' = "raised"
    /\ UNCHANGED <<s_invoices, s_receipts, s_start_date, s_end_date, s_now,
                   s_frames, df_client_summaries, df_status_breakdown,
                   s_period, s_balance, s_balance_aggregated,
                   df_transactions, outsideSummary>>

\* generate.py:105-107: it returns
ReportTextReturns ==
    /\ spc = "text"
    /\ GetReportingPeriodText(s_start_date, s_end_date) # ValueError
    /\ spc' = "summaries"
    /\ UNCHANGED <<s_invoices, s_receipts, s_start_date, s_end_date, s_now,
                   s_frames, df_client_summaries, df_status_breakdown,
                   s_period, s_balance, s_balance_aggregated,
                   df_transactions, outsideSummary>>

\* generate.py:110-120: the clients of the close slices
ClientsClose ==
    UniqueClients(s_frames.invoices_close)
        \cup UniqueClients(s_frames.receipts_close)

\* generate.py:124-130
ClientSummaries ==
    /\ spc = "summaries"
    /\ df_client_summaries' \in BuildClientSummaries(
           ClientsClose, s_frames.invoices_open, s_frames.invoices_close,
           s_frames.receipts_open, s_frames.receipts_close)
    /\ spc' = "status"
    /\ UNCHANGED <<s_invoices, s_receipts, s_start_date, s_end_date, s_now,
                   s_frames, df_status_breakdown, s_period, s_balance,
                   s_balance_aggregated, df_transactions, outsideSummary>>

\* generate.py:132
StatusBreakdown ==
    /\ spc = "status"
    /\ df_status_breakdown' \in BuildStatusBreakdown(df_client_summaries)
    /\ spc' = "balances"
    /\ UNCHANGED <<s_invoices, s_receipts, s_start_date, s_end_date, s_now,
                   s_frames, df_client_summaries, s_period, s_balance,
                   s_balance_aggregated, df_transactions, outsideSummary>>

\* generate.py:136-146: the period is normalized, then the monthly balances
\* and their rollup are computed for the normalized period
MonthlyBalances ==
    /\ spc = "balances"
    /\ s_period' = NormalizeDatePeriod(s_start_date, s_end_date, s_now)
    /\ s_balance' = ComputeMonthlyClientBalances(
                        s_period'[1], s_period'[2], s_frames.invoices_close,
                        s_frames.receipts_close, ClientsClose)
    /\ s_balance_aggregated' = SummarizeBalanceData(s_balance')
    /\ spc' = "ledger"
    /\ UNCHANGED <<s_invoices, s_receipts, s_start_date, s_end_date, s_now,
                   s_frames, df_client_summaries, df_status_breakdown,
                   df_transactions, outsideSummary>>

\* generate.py:272-282: the ledger of the normalized period
ClientTransactions ==
    /\ spc = "ledger"
    /\ df_transactions' \in BuildClientTransactions(
           s_period[1], s_period[2], s_frames.invoices_close,
           s_frames.receipts_close)
    /\ spc' = "done"
    /\ UNCHANGED <<s_invoices, s_receipts, s_start_date, s_end_date, s_now,
                   s_frames, df_client_summaries, df_status_breakdown,
                   s_period, s_balance, s_balance_aggregated,
                   outsideSummary>>

\* the dates of the first MaxReportMonth months of year 1
ReportDates ==
    { Date(1, m, d) : m \in 1..MaxReportMonth, d \in 1..DaysPerMonth }

\* The matched frames: the rows are in order of number (prepare.py:53, 100,
\* and match_payments_by_client keeps the order), the number is the row's
\* position, and the invoices are numbered in order of date.
MatchedInvoices ==
    UNION { { s \in [1..n -> [client : 1..NumClients, sort_date : ReportDates,
                              total : 1..MaxTotal]] :
                \A i, j \in 1..n : i < j => s[i].sort_date <= s[j].sort_date } :
            n \in 0..MaxReportInvoices }

MatchedReceipts ==
    UNION { [1..n -> [client : 1..NumClients, sort_date : ReportDates,
                      amount : 1..MaxAmount]] : n \in 0..MaxReportReceipts }

WithNumbers(df) ==
    [i \in 1..Len(df) |-> [number |-> i] @@ df[i]]

\* Any matched frames, any bounds, present or not; the clock, read only
\* when the end is absent, shows the last day of one of the months.
InitSummary ==
    /\ \E inv \in MatchedInvoices : s_invoices = WithNumbers(inv)
    /\ \E rec \in MatchedReceipts : s_receipts = WithNumbers(rec)
    /\ s_start_date \in {None} \cup ReportDates
    /\ s_end_date \in {None} \cup ReportDates
    /\ s_now \in IF s_end_date = None
                 THEN {Date(1, m, DaysPerMonth) : m \in 1..MaxReportMonth}
                 ELSE {Date(1, MaxReportMonth, DaysPerMonth)}
    /\ s_frames = <<>>
    /\ df_client_summaries = <<>>
    /\ df_status_breakdown = <<>>
    /\ s_period = <<>>
    /\ s_balance = {}
    /\ s_balance_aggregated = <<>>
    /\ df_transactions = <<>>
    /\ spc = "slice"
    /\ FanoutIdle
    /\ MatcherIdle
    /\ CallerIdle
    /\ DriverIdle
    /\ PeriodsIdle
    /\ GenerateIdle
    /\ NormalizeIdle
    /\ BalancesIdle

NextSummary ==
    \/ SliceReport
    \/ ReportTextRaises
    \/ ReportTextReturns
    \/ ClientSummaries
    \/ StatusBreakdown
    \/ MonthlyBalances
    \/ ClientTransactions

SpecSummary == InitSummary /\ [][NextSummary]_vars

\* ===================================================================
\* Properties of the core computations (specification SpecSummary)
\* ===================================================================

\* the positions of the client's records in a frame
RecordsOf(df, c) == {i \in 1..Len(df) : df[i].client = c}

\* the sum of a column over the client's records; 0 for a client the frame
\* does not have
ClientSum(df, column, c) ==
    SumOf([i \in RecordsOf(df, c) |-> df[i][column]], RecordsOf(df, c))

\* the client's summary rows
SummariesOf(c) ==
    {i \in 1..Len(df_client_summaries) : df_client_summaries[i].client = c}

Summarized == spc \in {"status", "balances", "ledger", "done"}

Broken == spc \in {"balances", "ledger", "done"}

\* the rows of the breakdown that carry the status
BucketsOf(status) ==
    {k \in 1..Len(df_status_breakdown) :
        df_status_breakdown[k].status = status}

\* the summaries whose closing balance has the sign: 1, -1 or 0
OfSign(sign) ==
    {i \in 1..Len(df_client_summaries) :
        \/ sign = 1 /\ df_client_summaries[i].closing_balance > 0
        \/ sign = 0 - 1 /\ df_client_summaries[i].closing_balance < 0
        \/ sign = 0 /\ df_client_summaries[i].closing_balance = 0}

\* the bucket of a sign is there when a summary has the sign, once, and
\* counts those summaries and sums their closing balances
BucketMatches(status, sign) ==
    /\ Cardinality(BucketsOf(status)) = IF OfSign(sign) = {} THEN 0 ELSE 1
    /\ \A k \in BucketsOf(status) :
          /\ df_status_breakdown[k].Clients = Cardinality(OfSign(sign))
          /\ df_status_breakdown[k].amount
                = SumOf([i \in OfSign(sign) |->
                           df_client_summaries[i].closing_balance],
                        OfSign(sign))

\* C22: every client summary is in exactly one bucket, which the sign of its
\* closing_balance determines (> 0 Outstanding, < 0 Advance, = 0 Settled);
\* the client counts of the buckets sum to the number of summaries and their
\* amounts to the total of the closing balances; the Outstanding amount is
\* positive, the Advance amount negative, the Settled amount zero.
C22_StatusPartition ==
    Broken =>
        /\ BucketMatches("Outstanding", 1)
        /\ BucketMatches("Advance", 0 - 1)
        /\ BucketMatches("Settled", 0)
        /\ \A k \in 1..Len(df_status_breakdown) :
              df_status_breakdown[k].status
                  \in {"Outstanding", "Advance", "Settled"}
        /\ SumSeq([k \in 1..Len(df_status_breakdown) |->
                     df_status_breakdown[k].Clients])
              = Len(df_client_summaries)
        /\ SumSeq([k \in 1..Len(df_status_breakdown) |->
                     df_status_breakdown[k].amount])
              = SumSeq([i \in 1..Len(df_client_summaries) |->
                          df_client_summaries[i].closing_balance])
        /\ \A k \in BucketsOf("Outstanding") :
              df_status_breakdown[k].amount > 0
        /\ \A k \in BucketsOf("Advance") : df_status_breakdown[k].amount < 0
        /\ \A k \in BucketsOf("Settled") : df_status_breakdown[k].amount = 0

\* a settled client beside one that owes or has paid in advance
C22_Witness ==
    /\ Broken
    /\ BucketsOf("Settled") # {}
    /\ Len(df_status_breakdown) = 2

\* the rows of the ledger that stand for the record of the close slice
LedgerRowsFor(type, number) ==
    {k \in 1..Len(df_transactions) :
        /\ df_transactions[k].type = type
        /\ df_transactions[k].reference = number}

InPeriod(date) == s_period[1] <= date /\ date <= s_period[2]

\* the signed amounts of the client's records of the close slice dated
\* before the date
HistoryBefore(c, date) ==
    LET inv == s_frames.invoices_close
        rec == s_frames.receipts_close
        earlier_inv == {i \in RecordsOf(inv, c) : inv[i].sort_date < date}
        earlier_rec == {i \in RecordsOf(rec, c) : rec[i].sort_date < date}
    IN  SumOf([i \in earlier_inv |-> inv[i].total], earlier_inv)
            - SumOf([i \in earlier_rec |-> rec[i].amount], earlier_rec)

\* the amounts of the client's ledger rows of the date, up to the position
SameDayUpTo(k) ==
    LET rows == {j \in 1..k :
                   /\ df_transactions[j].client = df_transactions[k].client
                   /\ df_transactions[j].sort_date
                          = df_transactions[k].sort_date}
    IN  SumOf([j \in rows |-> df_transactions[j].amount], rows)

\* C23: the ledger has one Invoice row, amount = total, for each invoice of
\* the close slice dated from start to end, both included, and one Receipt
\* row, amount = -amount, for each such receipt; the rows ascend by
\* sort_date; a row's balance is the sum of the signed amounts of the same
\* client's rows up to and including it over the whole close slice, records
\* dated before start included and other clients' records left out.
C23_Ledger ==
    spc = "done" =>
        /\ \A i \in 1..Len(s_frames.invoices_close) :
              LET invoice == s_frames.invoices_close[i]
                  rows == LedgerRowsFor("Invoice", invoice.number)
              IN  /\ Cardinality(rows)
                        = IF InPeriod(invoice.sort_date) THEN 1 ELSE 0
                  /\ \A k \in rows :
                        /\ df_transactions[k].amount = invoice.total
                        /\ df_transactions[k].client = invoice.client
                        /\ df_transactions[k].sort_date = invoice.sort_date
        /\ \A i \in 1..Len(s_frames.receipts_close) :
              LET receipt == s_frames.receipts_close[i]
                  rows == LedgerRowsFor("Receipt", receipt.number)
              IN  /\ Cardinality(rows)
                        = IF InPeriod(receipt.sort_date) THEN 1 ELSE 0
                  /\ \A k \in rows :
                        /\ df_transactions[k].amount = 0 - receipt.amount
                        /\ df_transactions[k].client = receipt.client
                        /\ df_transactions[k].sort_date = receipt.sort_date
        /\ \A k \in 1..Len(df_transactions) :
              /\ df_transactions[k].type \in {"Invoice", "Receipt"}
              /\ LedgerRowsFor(df_transactions[k].type,
                               df_transactions[k].reference) = {k}
              /\ InPeriod(df_transactions[k].sort_date)
              /\ df_transactions[k].balance
                    = HistoryBefore(df_transactions[k].client,
                                    df_transactions[k].sort_date)
                          + SameDayUpTo(k)
        /\ \A j, k \in 1..Len(df_transactions) :
              j < k => df_transactions[j].sort_date
                           <= df_transactions[k].sort_date

\* a ledger of two clients, with a row on the day the period starts whose
\* balance carries a transaction dated before the period
C23_Witness ==
    /\ spc = "done"
    /\ \E j, k \in 1..Len(df_transactions) :
          /\ df_transactions[j].client # df_transactions[k].client
          /\ j < k
          /\ df_transactions[k].sort_date = s_period[1]
          /\ HistoryBefore(df_transactions[k].client,
                           df_transactions[k].sort_date) # 0
          /\ df_transactions[k].balance # df_transactions[k].amount

\* the client's rows of the monthly balances
BalanceRowsOf(c) == {r \in s_balance : r.client = c}

\* C28: the closing_balance of every client summary is the balance of the
\* client's last row of the monthly balances of the same configuration,
\* whatever start_date and end_date are, absent or present.
C28_SummaryIsLastMonthlyBalance ==
    spc \in {"ledger", "done"} =>
        \A i \in 1..Len(df_client_summaries) :
            LET rows == BalanceRowsOf(df_client_summaries[i].client)
            IN  /\ rows # {}
                /\ \A r \in rows :
                      (\A q \in rows : q.sort_date <= r.sort_date)
                          => r.balance
                                 = df_client_summaries[i].closing_balance

SliceInverted ==
    /\ s_start_date # None /\ s_end_date # None
    /\ s_start_date > s_end_date

Sliced == spc \notin {"idle", "slice"}

SummaryTask == 0

TaskIds == SummaryTask..MaxItems

\* generate.py:226-233 and 263-333: the rendering tasks of an output, in the
\* order of submission by their number
RenderTasks(config) ==
    IF config.type = "individual" THEN 1..config.items
    ELSE IF config.type = "clients"
    THEN (IF config.include_summary THEN {SummaryTask} ELSE {})
             \cup 1..config.items
    ELSE {}

\* generate.py:95-146: the core computations that precede the branch on the
\* output type
NoCoreSteps(config) == <<>>

CoreSteps(config) ==
    IF config.include_summary
    THEN <<"slicing", "summaries", "balances">>
    ELSE <<"slicing">>

\* generate.py:272-282: the ledger is built inside the process pool's block
BuildsLedger(config) == config.type = "clients" /\ config.include_summary

\* as_completed (generate.py:238, 341) hands out a future once it has
\* finished, with a result or with an exception
Submitted(task_state) == task_state # "none"

Completed(task_state) == task_state \in {"done", "failed"}

\* the write futures that have not finished
UnfinishedWrites(writes) ==
    {k \in 1..Len(writes) : writes[k].state \in {"pending", "running"}}

\* the rendering futures that have been submitted and have not finished
UnfinishedTasks(tasks) ==
    {t \in DOMAIN tasks : tasks[t] \in {"pending", "running"}}

CurrentOutput == f_output[f_key]

\* generate.py:59
MatchPayments ==
    /\ fpc = "match"
    /\ f_matchings' = f_matchings + 1
    /\ fpc' = "loop"
    /\ UNCHANGED <<f_output, f_key, f_core, f_tasks, f_yielded, f_writes,
                   outsideFanout>>

\* generate.py:69: the loop takes the next output
BeginOutput ==
    /\ fpc = "loop"
    /\ f_key <= Len(f_output)
    /\ f_core' = {}
    /\ f_tasks' = [t \in TaskIds |-> "none"]
    /\ f_yielded' = {}
    /\ f_writes' = <<>>
    /\ fpc' = "core"
    /\ UNCHANGED <<f_output, f_key, f_matchings, outsideFanout>>

\* generate.py:69: the loop ends and generate returns
Returns ==
    /\ fpc = "loop"
    /\ f_key > Len(f_output)
    /\ fpc' = "done"
    /\ UNCHANGED <<f_output, f_key, f_matchings, f_core, f_tasks, f_yielded,
                   f_writes, outsideFanout>>

\* generate.py:95-146: the next core computation
CoreComputation ==
    /\ fpc = "core"
    /\ Cardinality(f_core) < Len(CoreSteps(CurrentOutput))
    /\ f_core' = f_core \cup {CoreSteps(CurrentOutput)[Cardinality(f_core) + 1]}
    /\ UNCHANGED <<f_output, f_key, f_matchings, f_tasks, f_yielded, f_writes,
                   fpc, outsideFanout>>

\* generate.py:162-205: the combined document is rendered and written by
\* the main thread
RenderCombined ==
    /\ fpc = "core"
    /\ Cardinality(f_core) >= Len(CoreSteps(CurrentOutput))
    /\ CurrentOutput.type = "combined"
    /\ f_key' = f_key + 1
    /\ fpc' = "loop"
    /\ UNCHANGED <<f_output, f_matchings, f_core, f_tasks, f_yielded,
                   f_writes, outsideFanout>>

\* generate.py:207-225 and 261-262: `with ProcessPoolExecutor()`; for the
\* type individual the main thread has rendered the summary document first
OpenProcessPool ==
    /\ fpc = "core"
    /\ Cardinality(f_core) >= Len(CoreSteps(CurrentOutput))
    /\ CurrentOutput.type # "combined"
    /\ fpc' = "submit"
    /\ UNCHANGED <<f_output, f_key, f_matchings, f_core, f_tasks, f_yielded,
                   f_writes, outsideFanout>>

\* generate.py:226-233, 263-271, 286-333: executor.submit of the next
\* rendering task; the tasks of the clients follow the ledger
SubmitRender ==
    /\ fpc = "submit"
    /\ \E t \in RenderTasks(CurrentOutput) :
          /\ f_tasks[t] = "none"
          /\ \A u \in RenderTasks(CurrentOutput) : u < t => f_tasks[u] # "none"
          /\ (BuildsLedger(CurrentOutput) /\ t # SummaryTask)
                 => "ledger" \in f_core
          /\ f_tasks' = [f_tasks EXCEPT ![t] = "pending"]
    /\ UNCHANGED <<f_output, f_key, f_matchings, f_core, f_yielded, f_writes,
                   fpc, outsideFanout>>

\* generate.py:272-282: build_client_transactions_df, after the summary
\* task has been submitted
ComputeLedger ==
    /\ fpc = "submit"
    /\ BuildsLedger(CurrentOutput)
    /\ f_tasks[SummaryTask] # "none"
    /\ "ledger" \notin f_core
    /\ f_core' = f_core \cup {"ledger"}
    /\ UNCHANGED <<f_output, f_key, f_matchings, f_tasks, f_yielded, f_writes,
                   fpc, outsideFanout>>

\* generate.py:235, 337: `with ThreadPoolExecutor()`
OpenThreadPool ==
    /\ fpc = "submit"
    /\ \A t \in RenderTasks(CurrentOutput) : f_tasks[t] # "none"
    /\ BuildsLedger(CurrentOutput) => "ledger" \in f_core
    /\ fpc' = "collect"
    /\ UNCHANGED <<f_output, f_key, f_matchings, f_core, f_tasks, f_yielded,
                   f_writes, outsideFanout>>

\* a worker process takes a task, and the task returns or raises
WorkerStarts ==
    /\ \E t \in TaskIds :
          /\ f_tasks[t] = "pending"
          /\ f_tasks' = [f_tasks EXCEPT ![t] = "running"]
    /\ UNCHANGED <<f_output, f_key, f_matchings, f_core,
                   f_yielded, f_writes, fpc, outsideFanout>>

WorkerReturns ==
    /\ \E t \in TaskIds :
          /\ f_tasks[t] = "running"
          /\ f_tasks' = [f_tasks EXCEPT ![t] = "done"]
    /\ UNCHANGED <<f_output, f_key, f_matchings, f_core,
                   f_yielded, f_writes, fpc, outsideFanout>>

WorkerRaises ==
    /\ \E t \in TaskIds :
          /\ f_tasks[t] = "running"
          /\ f_tasks' = [f_tasks EXCEPT ![t] = "failed"]
    /\ UNCHANGED <<f_output, f_key, f_matchings, f_core,
                   f_yielded, f_writes, fpc, outsideFanout>>

\* generate.py:237-246, 340-353: as_completed hands out a finished future,
\* future.result() returns and write_pdf is submitted
CollectResult ==
    /\ fpc = "collect"
    /\ \E t \in RenderTasks(CurrentOutput) \ f_yielded :
          /\ Completed(f_tasks[t])
          /\ f_tasks[t] # "failed"
          /\ f_yielded' = f_yielded \cup {t}
          /\ f_writes' = Append(f_writes, [task |-> t, state |-> "pending"])
    /\ UNCHANGED <<f_output, f_key, f_matchings, f_core, f_tasks, fpc,
                   outsideFanout>>

\* generate.py:243, 347: future.result() raises the task's exception
CollectRaises ==
    /\ fpc = "collect"
    /\ \E t \in RenderTasks(CurrentOutput) \ f_yielded :
          /\ Completed(f_tasks[t])
          /\ f_tasks[t] = "failed"
          /\ f_yielded' = f_yielded \cup {t}
    /\ fpc' = "unwind_threads"
    /\ UNCHANGED <<f_output, f_key, f_matchings, f_core, f_tasks, f_writes,
                   outsideFanout>>

\* generate.py:237, 340: the loop over the rendering futures ends
AllCollected ==
    /\ fpc = "collect"
    /\ RenderTasks(CurrentOutput) \subseteq f_yielded
    /\ fpc' = "wait"
    /\ UNCHANGED <<f_output, f_key, f_matchings, f_core, f_tasks, f_yielded,
                   f_writes, outsideFanout>>

\* a writer thread takes a write task (io/files.py:4-7), and it returns or
\* raises
WriterStarts ==
    /\ \E k \in 1..Len(f_writes) :
          /\ f_writes[k].state = "pending"
          /\ f_writes' = [f_writes EXCEPT ![k].state = "running"]
    /\ UNCHANGED <<f_output, f_key, f_matchings, f_core,
                   f_tasks, f_yielded, fpc, outsideFanout>>

WriterReturns ==
    /\ \E k \in 1..Len(f_writes) :
          /\ f_writes[k].state = "running"
          /\ f_writes' = [f_writes EXCEPT ![k].state = "done"]
    /\ UNCHANGED <<f_output, f_key, f_matchings, f_core,
                   f_tasks, f_yielded, fpc, outsideFanout>>

WriterRaises ==
    /\ \E k \in 1..Len(f_writes) :
          /\ f_writes[k].state = "running"
          /\ f_writes' = [f_writes EXCEPT ![k].state = "failed"]
    /\ UNCHANGED <<f_output, f_key, f_matchings, f_core,
                   f_tasks, f_yielded, fpc, outsideFanout>>

\* generate.py:248-254, 355-361: the loop over as_completed(futures) ends
\* when every write future has finished; no result() is read
WritesFinished ==
    /\ fpc = "wait"
    /\ UnfinishedWrites(f_writes) = {}
    /\ fpc' = "exit_threads"
    /\ UNCHANGED <<f_output, f_key, f_matchings, f_core, f_tasks, f_yielded,
                   f_writes, outsideFanout>>

\* the end of `with ThreadPoolExecutor()`: shutdown(wait=True)
CloseThreadPool ==
    /\ fpc = "exit_threads"
    /\ UnfinishedWrites(f_writes) = {}
    /\ fpc' = "exit_pool"
    /\ UNCHANGED <<f_output, f_key, f_matchings, f_core, f_tasks, f_yielded,
                   f_writes, outsideFanout>>

\* the end of `with ProcessPoolExecutor()`: shutdown(wait=True), and the
\* loop goes on
CloseProcessPool ==
    /\ fpc = "exit_pool"
    /\ UnfinishedTasks(f_tasks) = {}
    /\ f_key' = f_key + 1
    /\ fpc' = "loop"
    /\ UNCHANGED <<f_output, f_matchings, f_core, f_tasks, f_yielded,
                   f_writes, outsideFanout>>

\* the exception leaves `with ThreadPoolExecutor()`: shutdown(wait=True)
\* lets the submitted write tasks finish
UnwindThreadPool ==
    /\ fpc = "unwind_threads"
    /\ UnfinishedWrites(f_writes) = {}
    /\ fpc' = "unwind_pool"
    /\ UNCHANGED <<f_output, f_key, f_matchings, f_core, f_tasks, f_yielded,
                   f_writes, outsideFanout>>

\* the exception leaves `with ProcessPoolExecutor()`: shutdown(wait=True)
\* lets the submitted rendering tasks finish, and generate raises
UnwindProcessPool ==
    /\ fpc = "unwind_pool"
    /\ UnfinishedTasks(f_tasks) = {}
    /\ fpc' = "raised"
    /\ UNCHANGED <<f_output, f_key, f_matchings, f_core, f_tasks, f_yielded,
                   f_writes, outsideFanout>>

\* config/model.py:144-160: the outputs, with the number of documents the
\* report slice or the close slice gives rise to
FanOutputConfigs ==
    [type : {"combined", "individual", "clients"},
     include_summary : BOOLEAN,
     items : 1..MaxItems]

FanOutputLists ==
    UNION { [1..n -> FanOutputConfigs] : n \in 1..MaxFanOutputs }

InitFanout ==
    /\ f_output \in FanOutputLists
    /\ f_key = 1
    /\ f_matchings = 0
    /\ f_core = {}
    /\ f_tasks = [t \in TaskIds |-> "none"]
    /\ f_yielded = {}
    /\ f_writes = <<>>
    /\ fpc = "match"
    /\ MatcherIdle
    /\ CallerIdle
    /\ DriverIdle
    /\ SummaryIdle
    /\ PeriodsIdle
    /\ GenerateIdle
    /\ NormalizeIdle
    /\ BalancesIdle

NextFanout ==
    \/ MatchPayments
    \/ BeginOutput
    \/ Returns
    \/ CoreComputation
    \/ RenderCombined
    \/ OpenProcessPool
    \/ SubmitRender
    \/ ComputeLedger
    \/ OpenThreadPool
    \/ WorkerStarts
    \/ WorkerReturns
    \/ WorkerRaises
    \/ CollectResult
    \/ CollectRaises
    \/ AllCollected
    \/ WriterStarts
    \/ WriterReturns
    \/ WriterRaises
    \/ WritesFinished
    \/ CloseThreadPool
    \/ CloseProcessPool
    \/ UnwindThreadPool
    \/ UnwindProcessPool

SpecFanout == InitFanout /\ [][NextFanout]_vars

\* ===================================================================
\* Properties of the fan-out (specification SpecFanout)
\* ===================================================================

InOutput == fpc \notin {"idle", "match", "loop", "done"}

\* the core computations generate performs for the output
CoreOf(config) ==
    {"slicing"}
        \cup (IF config.include_summary THEN {"summaries", "balances"} ELSE {})
        \cup (IF BuildsLedger(config) THEN {"ledger"} ELSE {})

\* payment matching has run once when the loop over the outputs starts, and
\* never again
MatchedOnce ==
    /\ f_matchings <= 1
    /\ fpc \notin {"idle", "match"} => f_matchings = 1

\* a step of a worker process or a writer thread
PoolStep ==
    \/ WorkerStarts
    \/ WorkerReturns
    \/ WorkerRaises
    \/ WriterStarts
    \/ WriterReturns
    \/ WriterRaises

\* the workers and writers leave the matching and balance state alone
PoolsOnlyRead ==
    [][PoolStep => UNCHANGED <<f_matchings, f_core, f_output, f_key>>]_vars

\* no rendering task is submitted before every core computation of the
\* output, the ledger included, is done
AllCoreBeforeAnyTask ==
    InOutput =>
        \A t \in TaskIds :
            f_tasks[t] # "none" => CoreOf(CurrentOutput) \subseteq f_core

CoreBeforeTasks ==
    InOutput =>
        \A t \in TaskIds :
            f_tasks[t] # "none" =>
                /\ CoreOf(CurrentOutput) \ {"ledger"} \subseteq f_core
                /\ t # SummaryTask => CoreOf(CurrentOutput) \subseteq f_core

WritesOf(t) ==
    Cardinality({k \in 1..Len(f_writes) : f_writes[k].task = t})

\* the output has been left: the loop is at its head, or generate has
\* returned or raised
OutputLeft == fpc \in {"loop", "done", "raised"}

\* a write task is submitted only for a rendering task that has returned
WriteAfterRender ==
    \A k \in 1..Len(f_writes) : f_tasks[f_writes[k].task] = "done"

\* generate goes on or ends only when the submitted tasks have finished
LeftWhenFinished ==
    OutputLeft =>
        /\ UnfinishedWrites(f_writes) = {}
        /\ UnfinishedTasks(f_tasks) = {}

\* generate raises when a rendering task has raised, and only then goes
\* no further
RaisedWhenTaskFailed ==
    /\ fpc \in {"loop", "done"} => \A t \in TaskIds : f_tasks[t] # "failed"
    /\ fpc = "raised" => \E t \in TaskIds : f_tasks[t] = "failed"

====
